---------------------------- MODULE Spec2Model ----------------------------
(***************************************************************************)
(* A model of the TypeScript-declaration to Scala.js facade converter      *)
(* (src/src/converter.ts).                                                 *)
(*                                                                         *)
(* Text is modelled by TLA+ strings built with \o.  Operations on the      *)
(* characters of a string (includes('.'), charAt(0).toUpperCase(), a       *)
(* regular expression) are modelled by tables over the finite universes    *)
(* of names and literal texts the model draws its inputs from.             *)
(***************************************************************************)
EXTENDS Naturals, Sequences, FiniteSets, TLC

VARIABLES
    tnode,      \* TypeMapper: the type node handed to convertTypeToScala
    tres,       \* TypeMapper: the text convertTypeToScala(tnode) returned
    tentries,   \* TypeMapper: the entries convertUnionType joined (top-level union)
    tprev,      \* TypeMapper: the mapped text before the last parenthesization
    twraps,     \* TypeMapper: number of parenthesizations applied to tnode
    tpc,        \* TypeMapper: "input" before convertTypeToScala(tnode), "mapped" after
    input,      \* convert: the parsed source file [diagnostics, statements]
    packageName,    \* convert: the package name argument
    pc,         \* convert: "idle", "called", "statements", "returned", "raised"
    idx,        \* convert: index of the next top-level statement
    writer,     \* convert: the CodeBlockWriter
    topLevelExports,    \* convert: the exports collected at file scope
    result,     \* convert: the lines of the returned text
    calls,      \* convert: the calls that ended, with their outcomes
    tsFiles,    \* run.ts: the files findTsFiles returned, each with the step that fails
    dpc,        \* run.ts: "idle", "main", "loop", "exited"
    di,         \* run.ts: index of the next file of the loop of main
    successCount,   \* run.ts: the counter of main
    completed,  \* run.ts: the files read, converted and written without error
    exitStatus, \* run.ts: the exit status of the process
    customTsContent,    \* App: the text of the custom input
    customScalaContent, \* App: the shown output of the custom mode
    isConverting,   \* App: the converting flag
    upc,        \* App: "off", "idle", or the position inside handleCustomConvert
    invocations,    \* App: the outcomes of the invocations of handleCustomConvert
    highlighterInstance,    \* CodeHighlighter: the module-level highlighter, or "null"
    code,       \* CodeHighlighter: the code of the current props
    language,   \* CodeHighlighter: the language of the current props
    pending,    \* CodeHighlighter: the calls that await createHighlighter
    highlightedCode,    \* CodeHighlighter: the markup in the component state
    requests    \* CodeHighlighter: the calls of initializeHighlighter so far

tvars == <<tnode, tres, tentries, tprev, twraps, tpc>>
cvars == <<input, packageName, pc, idx, writer, topLevelExports, result, calls>>
dvars == <<tsFiles, dpc, di, successCount, completed, exitStatus>>
uvars == <<customTsContent, customScalaContent, isConverting, upc, invocations>>
hvars == <<highlighterInstance, code, language, pending, highlightedCode, requests>>
vars == <<tnode, tres, tentries, tprev, twraps, tpc,
          input, packageName, pc, idx, writer, topLevelExports, result, calls,
          tsFiles, dpc, di, successCount, completed, exitStatus,
          customTsContent, customScalaContent, isConverting, upc, invocations,
          highlighterInstance, code, language, pending, highlightedCode, requests>>

\* the batch driver, the interactive surface and the highlighting view are
\* not running
IdleDriver ==
    /\ tsFiles = <<>>
    /\ dpc = "idle"
    /\ di = 0
    /\ successCount = 0
    /\ completed = 0
    /\ exitStatus = 0

IdleApp ==
    /\ customTsContent = ""
    /\ customScalaContent = ""
    /\ isConverting = FALSE
    /\ upc = "off"
    /\ invocations = <<>>

IdleHighlighter ==
    /\ highlighterInstance = "null"
    /\ code = ""
    /\ language = ""
    /\ pending = {}
    /\ highlightedCode = ""
    /\ requests = <<>>

-----------------------------------------------------------------------------
(* Bounds of the model.                                                     *)

MaxUnionLen == 4    \* members of a generated union type
MaxWraps == 1       \* parenthesizations applied to one type node

-----------------------------------------------------------------------------
(* Sequence helpers (Array.prototype.map / filter / join, new Set).         *)

RECURSIVE Join(_, _)
Join(seq, sep) ==
    IF Len(seq) = 0 THEN ""
    ELSE IF Len(seq) = 1 THEN seq[1]
    ELSE seq[1] \o sep \o Join(Tail(seq), sep)

Includes(seq, x) == \E i \in 1..Len(seq) : seq[i] = x

RECURSIVE UniqueFrom(_, _)
UniqueFrom(seq, acc) ==
    IF Len(seq) = 0 THEN acc
    ELSE UniqueFrom(Tail(seq),
                    IF Includes(acc, Head(seq)) THEN acc ELSE Append(acc, Head(seq)))

\* [...new Set(types)]: first-seen order, duplicates by string identity dropped
Unique(seq) == UniqueFrom(seq, <<>>)

\* arr.filter(keep) is SelectSeq(arr, keep) of the Sequences module

-----------------------------------------------------------------------------
(* Type nodes of the declaration tree (ts.TypeNode).  A node is a record    *)
(*   kind : the ts.SyntaxKind of the node                                   *)
(*   sub  : the kind of node.literal (LiteralType) or node.operator         *)
(*          (TypeOperator), "" otherwise                                    *)
(*   text : getText() of the type name (TypeReference) or of the literal    *)
(*   args : the child type nodes: typeArguments (TypeReference), types      *)
(*          (UnionType, IntersectionType), <<type>> (ParenthesizedType,     *)
(*          TypeOperator), <<elementType>> (ArrayType), and for a           *)
(*          FunctionType <<return type>> \o the parameters' types, NoType   *)
(*          standing for a parameter without annotation                     *)
(*   members : the members of a TypeLiteral (declaration nodes, below)      *)

TN(kind, sub, text, args) ==
    [kind |-> kind, sub |-> sub, text |-> text, args |-> args, members |-> <<>>]

Kw(kind) == TN(kind, "", "", <<>>)
NoType == Kw("<none>")
Lit(sub, text) == TN("LiteralType", sub, text, <<>>)
Ref(name, args) == TN("TypeReference", "", name, args)
Paren(t) == TN("ParenthesizedType", "", "", <<t>>)
Arr(t) == TN("ArrayType", "", "", <<t>>)
Union(ts) == TN("UnionType", "", "", ts)
Inter(ts) == TN("IntersectionType", "", "", ts)
TypeOp(op, t) == TN("TypeOperator", op, "", <<t>>)
FnType(ret, ps) == TN("FunctionType", "", "", <<ret>> \o ps)
TypeLit(ms) == [TN("TypeLiteral", "", "", <<>>) EXCEPT !.members = ms]

\* text.includes('.') over the numeric literal texts of the model
DottedTexts == {"1.5", "2.5"}
HasDot(text) == text \in DottedTexts

\* ts.isLiteralTypeNode(t) && ts.isStringLiteral(t.literal)
IsStringLiteralType(t) == t.kind = "LiteralType" /\ t.sub = "StringLiteral"
\* ts.isLiteralTypeNode(t) && ts.isNumericLiteral(t.literal)
IsNumericLiteralType(t) == t.kind = "LiteralType" /\ t.sub = "NumericLiteral"

-----------------------------------------------------------------------------
(* TypeMapper: convertTypeToScala and the functions it dispatches to.       *)

convertLiteralType(node) ==
    CASE node.sub \in {"TrueKeyword", "FalseKeyword"} -> "Boolean"
      [] node.sub = "StringLiteral" -> "String"
      [] node.sub = "NumericLiteral" -> (IF HasDot(node.text) THEN "Double" ELSE "Int")
      [] node.sub = "NullKeyword" -> "Null"
      [] OTHER -> "js.Any"

\* the keys of the typeMapping object literal of convertTypeReference
TypeMappingKeys ==
    {"null", "undefined", "Float32Array", "Float64Array", "Uint8Array",
     "Uint16Array", "Uint32Array", "Int8Array", "Int16Array", "Int32Array",
     "Uint8ClampedArray", "ArrayBuffer", "ArrayBufferView", "DataView",
     "ReadonlyArray", "PromiseLike"}

\* typeMapping[typeName] for its own keys; the object literal also answers
\* for the property names it inherits from Object.prototype, of which the
\* model keeps "constructor" (rendered by the template as the function's text)
typeMapping(typeName) ==
    CASE typeName = "null" -> "Null"
      [] typeName = "undefined" -> "Unit"
      [] typeName = "ReadonlyArray" -> "js.Array"
      [] typeName = "PromiseLike" -> "js.Thenable"
      [] typeName = "constructor" -> "function Object() { [native code] }"
      [] OTHER -> "js.typedarray." \o typeName

HasTypeMapping(typeName) == typeName \in TypeMappingKeys \cup {"constructor"}

\* a mapper that forgets to look at the operator
convertTypeOperatorAnyOperator(node) == "String"

convertTypeOperator(node) ==
    IF node.sub = "KeyOfKeyword" THEN "String" ELSE "js.Any"

\* the value of a switch default / of the `x ? convert(x) : dflt` idiom
DefaultAny == "js.Any"

RECURSIVE convertTypeToScala(_)

\* arr.map(t => convertTypeToScala(t))
RECURSIVE MapTypes(_)
MapTypes(ts) ==
    IF Len(ts) = 0 THEN <<>>
    ELSE <<convertTypeToScala(Head(ts))>> \o MapTypes(Tail(ts))

\* p.type ? convertTypeToScala(p.type) : dflt
TypeOr(t, dflt) == IF t = NoType THEN dflt ELSE convertTypeToScala(t)

RECURSIVE MapTypesOr(_, _)
MapTypesOr(ts, dflt) ==
    IF Len(ts) = 0 THEN <<>>
    ELSE <<TypeOr(Head(ts), dflt)>> \o MapTypesOr(Tail(ts), dflt)

convertTypeReference(node) ==
    LET typeName == node.text
        typeArgs == MapTypes(node.args)
    IN  IF typeName = "Array" /\ Len(typeArgs) > 0
          THEN "js.Array[" \o Join(typeArgs, ", ") \o "]"
        ELSE IF typeName = "ReadonlyArray" /\ Len(typeArgs) > 0
          THEN "js.Array[_ <: " \o Join(typeArgs, ", ") \o "]"
        ELSE IF HasTypeMapping(typeName)
          THEN (IF Len(typeArgs) > 0
                  THEN typeMapping(typeName) \o "[" \o Join(typeArgs, ", ") \o "]"
                  ELSE typeMapping(typeName))
        ELSE IF Len(typeArgs) > 0
          THEN typeName \o "[" \o Join(typeArgs, ", ") \o "]"
        ELSE typeName

convertFunctionType(node) ==
    LET params == MapTypesOr(Tail(node.args), "js.Any")
        returnType == TypeOr(Head(node.args), "Unit")
    IN  IF Len(params) = 0 THEN "js.Function0[" \o returnType \o "]"
        ELSE IF Len(params) = 1
          THEN "js.Function1[" \o params[1] \o ", " \o returnType \o "]"
        ELSE IF Len(params) = 2
          THEN "js.Function2[" \o params[1] \o ", " \o params[2] \o ", " \o returnType \o "]"
        ELSE "js.Function"

convertArrayType(node) ==
    "js.Array[" \o convertTypeToScala(node.args[1]) \o "]"

\* node.types.every(t => isLiteralTypeNode(t) && isStringLiteral(t.literal))
allStringLiterals(node) == \A i \in 1..Len(node.args) : IsStringLiteralType(node.args[i])
allNumericLiterals(node) == \A i \in 1..Len(node.args) : IsNumericLiteralType(node.args[i])
allIntegers(node) ==
    \A i \in 1..Len(node.args) :
        IsNumericLiteralType(node.args[i]) /\ ~HasDot(node.args[i].text)
allDoubles(node) ==
    \A i \in 1..Len(node.args) :
        IsNumericLiteralType(node.args[i]) /\ HasDot(node.args[i].text)

\* a collapse with the two categories exchanged
NumericCollapseSwapped(node) ==
    IF allIntegers(node) THEN <<"Double">>
    ELSE IF allDoubles(node) THEN <<"Int">>
    ELSE <<>>

\* a collapse that takes every union with a fractional member for Double
NumericCollapseElseDouble(node) ==
    IF allIntegers(node) THEN <<"Int">> ELSE <<"Double">>

\* the two early returns of the all-numeric-literals branch; <<>> when the
\* branch falls through (members of both categories)
NumericCollapse(node) ==
    IF allIntegers(node) THEN <<"Int">>
    ELSE IF allDoubles(node) THEN <<"Double">>
    ELSE <<>>

IsNotNullOrUnit(t) == t # "Null" /\ t # "Unit"
IsNotStringLiteralType(t) == ~IsStringLiteralType(t)

\* the entries of the mixed string-literal branch:
\* ['String', ...nonStringLiteralTypes]
MixedStringEntries(node) ==
    <<"String">> \o MapTypes(SelectSeq(node.args, IsNotStringLiteralType))

\* a union mapper without the nullable pattern
convertUnionEntriesNoNullable(node) ==
    LET types == MapTypes(node.args)
        uniqueTypes == Unique(types)
        hasStringLiterals == \E i \in 1..Len(node.args) : IsStringLiteralType(node.args[i])
        hasNonStringLiterals == \E i \in 1..Len(node.args) : ~IsStringLiteralType(node.args[i])
    IN  IF allStringLiterals(node) THEN <<"String">>
        ELSE IF allNumericLiterals(node) /\ NumericCollapse(node) # <<>>
          THEN NumericCollapse(node)
        ELSE IF hasStringLiterals /\ hasNonStringLiterals
          THEN MixedStringEntries(node)
        ELSE uniqueTypes

\* The entries convertUnionType joins with ' | ' (a one-entry sequence where
\* it returns a single primitive).
convertUnionEntries(node) ==
    LET types == MapTypes(node.args)
        uniqueTypes == Unique(types)
        otherTypes == SelectSeq(uniqueTypes, IsNotNullOrUnit)
        hasStringLiterals == \E i \in 1..Len(node.args) : IsStringLiteralType(node.args[i])
        hasNonStringLiterals == \E i \in 1..Len(node.args) : ~IsStringLiteralType(node.args[i])
    IN  IF allStringLiterals(node) THEN <<"String">>
        ELSE IF allNumericLiterals(node) /\ NumericCollapse(node) # <<>>
          THEN NumericCollapse(node)
        ELSE IF Includes(uniqueTypes, "Null") /\ Includes(uniqueTypes, "Unit")
                /\ Len(otherTypes) = 1
          THEN <<otherTypes[1], "Null", "Unit">>
        ELSE IF hasStringLiterals /\ hasNonStringLiterals
          THEN MixedStringEntries(node)
        ELSE uniqueTypes

convertUnionType(node) == Join(convertUnionEntries(node), " | ")

convertIntersectionType(node) == Join(Unique(MapTypes(node.args)), " with ")

convertTypeToScala(typeNode) ==
    CASE typeNode.kind = "StringKeyword" -> "String"
      [] typeNode.kind = "NumberKeyword" -> "Double"
      [] typeNode.kind = "BooleanKeyword" -> "Boolean"
      [] typeNode.kind = "VoidKeyword" -> "Unit"
      [] typeNode.kind = "NullKeyword" -> "Null"
      [] typeNode.kind = "UndefinedKeyword" -> "Unit"
      [] typeNode.kind = "AnyKeyword" -> "js.Any"
      [] typeNode.kind = "ObjectKeyword" -> "js.Object"
      [] typeNode.kind = "NeverKeyword" -> "Nothing"
      [] typeNode.kind \in {"ThisKeyword", "ThisType"} -> "this.type"
      [] typeNode.kind = "TypeReference" -> convertTypeReference(typeNode)
      [] typeNode.kind = "LiteralType" -> convertLiteralType(typeNode)
      [] typeNode.kind = "TypeLiteral" -> "js.Any"
      [] typeNode.kind = "FunctionType" -> convertFunctionType(typeNode)
      [] typeNode.kind = "ParenthesizedType" -> convertTypeToScala(typeNode.args[1])
      [] typeNode.kind = "ArrayType" -> convertArrayType(typeNode)
      [] typeNode.kind = "UnionType" -> convertUnionType(typeNode)
      [] typeNode.kind = "IntersectionType" -> convertIntersectionType(typeNode)
      [] typeNode.kind = "TypeOperator" -> convertTypeOperator(typeNode)
      [] OTHER -> DefaultAny


-----------------------------------------------------------------------------
(* The type nodes the TypeMapper specification draws its input from.        *)

StrA == Lit("StringLiteral", "'a'")
StrB == Lit("StringLiteral", "'b'")
Int1 == Lit("NumericLiteral", "1")
Int2 == Lit("NumericLiteral", "2")
Dbl15 == Lit("NumericLiteral", "1.5")
Dbl25 == Lit("NumericLiteral", "2.5")
NullT == Lit("NullKeyword", "null")
UndefT == Kw("UndefinedKeyword")
StringT == Kw("StringKeyword")
Foo == Ref("Foo", <<>>)
Bar == Ref("Bar", <<>>)

\* node kinds convertTypeToScala has no case for
UnmappedKinds ==
    {"UnknownKeyword", "SymbolKeyword", "BigIntKeyword", "TupleType",
     "ConditionalType", "MappedType", "TypeQuery", "IndexedAccessType",
     "TemplateLiteralType", "ConstructorType", "TypePredicate"}

\* literal kinds convertLiteralType has no case for
UnmappedLiteralKinds ==
    {"PrefixUnaryExpression", "NoSubstitutionTemplateLiteral", "BigIntLiteral"}

\* type operators other than keyof
OtherTypeOperators == {"ReadonlyKeyword", "UniqueKeyword"}

AtomTypes ==
    {Kw(k) : k \in {"StringKeyword", "NumberKeyword", "BooleanKeyword", "VoidKeyword",
                    "UndefinedKeyword", "AnyKeyword", "ObjectKeyword", "NeverKeyword",
                    "ThisType", "TypeLiteral"} \cup UnmappedKinds}
    \cup {StrA, StrB, Int1, Int2, Dbl15, Dbl25, NullT,
          Lit("TrueKeyword", "true"), Lit("FalseKeyword", "false")}
    \cup {Lit(k, "-1") : k \in UnmappedLiteralKinds}
    \cup {Foo, Bar, Ref("Float32Array", <<>>), Ref("Array", <<>>), Ref("constructor", <<>>)}

CompositeTypes ==
    {Arr(Foo), Arr(StringT), Arr(Union(<<StrA, Foo>>)), Paren(Union(<<Foo, StrA>>)),
     Ref("Array", <<StringT>>), Ref("ReadonlyArray", <<Foo>>), Ref("ReadonlyArray", <<>>),
     Ref("PromiseLike", <<StringT>>), Ref("Foo", <<Bar, StringT>>),
     TypeOp("KeyOfKeyword", Foo),
     Inter(<<Foo, Bar, Foo>>), Inter(<<Foo>>),
     FnType(Kw("VoidKeyword"), <<>>), FnType(StringT, <<Foo>>),
     FnType(Foo, <<NoType, StringT>>), FnType(Foo, <<Foo, Bar, StringT>>)}
    \cup {TypeOp(op, t) : op \in OtherTypeOperators, t \in {Foo, Arr(StringT)}}

\* the members the generated unions are built from
UnionMembers == {StrA, StrB, Int1, Dbl15, NullT, UndefT, Foo, StringT}

\* a union has at least one member (a leading | makes a one-member union)
UnionTypes == UNION {{Union(ts) : ts \in [1..k -> UnionMembers]} : k \in 1..MaxUnionLen}

TypeInputs == AtomTypes \cup CompositeTypes \cup UnionTypes

-----------------------------------------------------------------------------
(* The TypeMapper as a state machine: a type node is drawn, mapped, and may *)
(* then be rewritten by parenthesizing it or one of its children and be     *)
(* mapped again.                                                            *)

InitT ==
    /\ tnode \in TypeInputs
    /\ tres = ""
    /\ tentries = <<>>
    /\ tprev = ""
    /\ twraps = 0
    /\ tpc = "input"
    /\ input = [diagnostics |-> FALSE, statements |-> <<>>]
    /\ packageName = ""
    /\ pc = "idle"
    /\ idx = 0
    /\ writer = [lines |-> <<>>, indent |-> 0, raised |-> FALSE]
    /\ topLevelExports = [interfaces |-> <<>>, types |-> <<>>, classes |-> <<>>,
                          functions |-> <<>>, exportAssignments |-> <<>>,
                          variables |-> <<>>]
    /\ result = <<>>
    /\ calls = <<>>
    /\ IdleDriver /\ IdleApp /\ IdleHighlighter

\* tres := convertTypeToScala(tnode)
MapType ==
    /\ tpc = "input"
    /\ tres' = convertTypeToScala(tnode)
    /\ tentries' = IF tnode.kind = "UnionType" THEN convertUnionEntries(tnode) ELSE <<>>
    /\ tpc' = "mapped"
    /\ UNCHANGED <<tnode, tprev, twraps>>
    /\ UNCHANGED <<cvars, dvars, uvars, hvars>>

\* node with its child p parenthesized; p = 0 parenthesizes node itself
ParenthesizeAt(node, p) ==
    IF p = 0 THEN Paren(node)
    ELSE [node EXCEPT !.args[p] = Paren(node.args[p])]

\* the source text is edited: one type, or one child of it, is put in
\* parentheses, and the type is to be mapped again
Parenthesize ==
    /\ tpc = "mapped"
    /\ twraps < MaxWraps
    /\ \E p \in 0..Len(tnode.args) :
          /\ p > 0 => tnode.args[p] # NoType
          /\ tnode' = ParenthesizeAt(tnode, p)
    /\ tprev' = tres
    /\ twraps' = twraps + 1
    /\ tpc' = "input"
    /\ UNCHANGED <<tres, tentries>>
    /\ UNCHANGED <<cvars, dvars, uvars, hvars>>

\* the TypeMapper applied to every drawn type node
NextT == MapType

SpecTypes == InitT /\ [][NextT]_vars

\* the TypeMapper applied before and after a parenthesization
NextParen == MapType \/ Parenthesize

SpecParen == InitT /\ [][NextParen]_vars

-----------------------------------------------------------------------------
(* Properties of the TypeMapper.                                            *)

Mapped == tpc = "mapped"
MappedUnion == Mapped /\ tnode.kind = "UnionType" /\ Len(tnode.args) > 0

\* the node is of a kind for which the mapper has no explicit rule
HasNoMappingRule(node) ==
    \/ node.kind \in UnmappedKinds
    \/ node.kind = "TypeOperator" /\ node.sub # "KeyOfKeyword"
    \/ node.kind = "LiteralType" /\ node.sub \in UnmappedLiteralKinds

\* C4: mapType is total and degrades to js.Any: every drawn node is mapped to
\* a non-empty text (the mapping step has no guard but its position), and a
\* node of a kind without a mapping rule maps to exactly js.Any.
C4_UnmappedKindsMapToAny ==
    /\ Mapped => tres \in STRING /\ tres # ""
    /\ Mapped /\ HasNoMappingRule(tnode) => tres = "js.Any"

C4_Witness ==
    /\ Mapped
    /\ tnode.kind = "TypeOperator" /\ tnode.sub = "ReadonlyKeyword"
    /\ tres = "js.Any"

IsIntLiteralType(t) == IsNumericLiteralType(t) /\ ~HasDot(t.text)
IsDoubleLiteralType(t) == IsNumericLiteralType(t) /\ HasDot(t.text)
OnlyStringLiterals(node) == \A i \in 1..Len(node.args) : IsStringLiteralType(node.args[i])
OnlyNumericLiterals(node) == \A i \in 1..Len(node.args) : IsNumericLiteralType(node.args[i])
OnlyIntLiterals(node) == \A i \in 1..Len(node.args) : IsIntLiteralType(node.args[i])
OnlyDoubleLiterals(node) == \A i \in 1..Len(node.args) : IsDoubleLiteralType(node.args[i])

\* C5: a non-empty union of only string literals maps to String, of only
\* numeric literals without a decimal point to Int, of only numeric literals
\* with a decimal point to Double, whatever its length and repetitions.
C5_UniformLiteralUnionCollapses ==
    MappedUnion =>
        /\ OnlyStringLiterals(tnode) => tres = "String"
        /\ OnlyIntLiterals(tnode) => tres = "Int"
        /\ OnlyDoubleLiterals(tnode) => tres = "Double"

C5_Witness ==
    /\ MappedUnion
    /\ tnode.args = <<Int1, Int1, Int1>>
    /\ tres = "Int"

\* C6 as claimed: a union of only numeric literals maps to Int when no member
\* has a decimal point and to Double in every other case.
C6_AsClaimed ==
    MappedUnion /\ OnlyNumericLiterals(tnode) =>
        tres = (IF OnlyIntLiterals(tnode) THEN "Int" ELSE "Double")

\* C6 (amended): a union of only numeric literals maps to Int when no member
\* has a decimal point, to Double when every member has one, and otherwise
\* to the union of Int and Double in the order the two categories first occur.
C6_NumericUnionByCategory ==
    MappedUnion /\ OnlyNumericLiterals(tnode) =>
        tres = (IF OnlyIntLiterals(tnode) THEN "Int"
                ELSE IF OnlyDoubleLiterals(tnode) THEN "Double"
                ELSE IF IsIntLiteralType(tnode.args[1]) THEN "Int | Double"
                ELSE "Double | Int")

C6_Witness ==
    /\ MappedUnion
    /\ tnode.args = <<Dbl15, Int1, Dbl15>>
    /\ tres = "Double | Int"

NoRepeatedEntry(entries) ==
    \A i, j \in 1..Len(entries) : i # j => entries[i] # entries[j]

\* C7: the entries joined for a union that is not collapsed to one primitive
\* are pairwise textually distinct (in a union mixing string literals with
\* other members, String and every other mapped member occur once).
C7_JoinedEntriesDistinct ==
    MappedUnion => NoRepeatedEntry(tentries)

\* the set of the mapped members of a union
MappedMemberSet(node) == {convertTypeToScala(node.args[i]) : i \in 1..Len(node.args)}

\* C8: a union whose mapped member set is exactly {T, Null, Unit} for one T
\* renders as T | Null | Unit, whatever the order and repetition of members.
C8_NullableUnion ==
    MappedUnion =>
        \A T \in MappedMemberSet(tnode) :
            (T \notin {"Null", "Unit"} /\ MappedMemberSet(tnode) = {T, "Null", "Unit"})
                => tres = T \o " | Null | Unit"

C8_Witness ==
    /\ MappedUnion
    /\ tnode.args = <<UndefT, NullT, Foo, NullT>>
    /\ tres = "Foo | Null | Unit"

\* C9: putting a type node, or a child of it, in parentheses does not change
\* the text the enclosing type maps to.
C9_ParenthesesTransparent ==
    Mapped /\ twraps > 0 => tres = tprev

-----------------------------------------------------------------------------
(* Declaration nodes of the tree (statements, members, parameters).  A node *)
(* is a record                                                              *)
(*   kind     : the ts.SyntaxKind of the node                               *)
(*   sub      : the kind of node.name (ModuleDeclaration) or of             *)
(*              node.expression (ExportAssignment), "" otherwise            *)
(*   name     : node.name.getText() (node.expression.getText() for an       *)
(*              ExportAssignment), "" when the node has no name             *)
(*   mods     : the modifier keywords of the node; "?" and "..." stand for  *)
(*              a parameter's questionToken and dotDotDotToken, "const" on  *)
(*              a VariableDeclaration for NodeFlags.Const of its list       *)
(*   tparams  : typeParameters, each a node whose type is the constraint    *)
(*   params   : parameters                                                  *)
(*   type     : the type annotation, NoType when there is none              *)
(*   members  : members (class, interface, enum), declarations (variable   *)
(*              statement), statements of the body (module)                 *)
(*   heritage : heritageClauses, each [token, types] with the texts of the  *)
(*              clause's type expressions                                   *)
(*   body     : the kind of node.body of a ModuleDeclaration ("ModuleBlock",*)
(*              "ModuleDeclaration" for a dotted name, "" for none)         *)

DN(kind, name) ==
    [kind |-> kind, sub |-> "", name |-> name, mods |-> {}, tparams |-> <<>>,
     params |-> <<>>, type |-> NoType, members |-> <<>>, heritage |-> <<>>,
     body |-> ""]

Param(name, mods, type) == [DN("Parameter", name) EXCEPT !.mods = mods, !.type = type]
TParam(name, constraint) == [DN("TypeParameter", name) EXCEPT !.type = constraint]
Func(name, mods, tparams, params, type) ==
    [DN("FunctionDeclaration", name) EXCEPT
        !.mods = mods, !.tparams = tparams, !.params = params, !.type = type]
Alias(name, tparams, type) ==
    [DN("TypeAliasDeclaration", name) EXCEPT !.tparams = tparams, !.type = type]
VarDecl(name, mods, type) ==
    [DN("VariableDeclaration", name) EXCEPT !.mods = mods, !.type = type]
VarStmt(decls) == [DN("VariableStatement", "") EXCEPT !.members = decls]
ExportAssign(exprKind, text) == [DN("ExportAssignment", text) EXCEPT !.sub = exprKind]
Module(nameKind, name, bodyKind, stmts) ==
    [DN("ModuleDeclaration", name) EXCEPT
        !.sub = nameKind, !.body = bodyKind, !.members = stmts]
Class(name, mods, tparams, heritage, members) ==
    [DN("ClassDeclaration", name) EXCEPT
        !.mods = mods, !.tparams = tparams, !.heritage = heritage, !.members = members]
Interface(name, tparams, members) ==
    [DN("InterfaceDeclaration", name) EXCEPT !.tparams = tparams, !.members = members]
Enum(name, members) == [DN("EnumDeclaration", name) EXCEPT !.members = members]
Property(name, mods, type) ==
    [DN("PropertyDeclaration", name) EXCEPT !.mods = mods, !.type = type]
Method(name, mods, tparams, params, type) ==
    [DN("MethodDeclaration", name) EXCEPT
        !.mods = mods, !.tparams = tparams, !.params = params, !.type = type]
Ctor(mods, params) == [DN("Constructor", "") EXCEPT !.mods = mods, !.params = params]
PropertySig(name, mods, type) ==
    [DN("PropertySignature", name) EXCEPT !.mods = mods, !.type = type]
MethodSig(name, tparams, params, type) ==
    [DN("MethodSignature", name) EXCEPT !.tparams = tparams, !.params = params, !.type = type]
IndexSig(mods, params, type) ==
    [DN("IndexSignature", "") EXCEPT !.mods = mods, !.params = params, !.type = type]
Heritage(token, types) == [token |-> token, types |-> types]

\* node.modifiers?.some(m => m.kind === kw)
HasModifier(node, kw) == kw \in node.mods
IsPrivateOrProtected(node) == HasModifier(node, "private") \/ HasModifier(node, "protected")
\* ts.isPropertySignature(m) && m.type && ts.isTypeLiteralNode(m.type)
IsInlineTypeLiteralProperty(m) == m.kind = "PropertySignature" /\ m.type.kind = "TypeLiteral"

-----------------------------------------------------------------------------
(* Names.                                                                   *)

SCALA_RESERVED_WORDS ==
    {"abstract", "case", "catch", "class", "def", "do", "else", "extends", "false",
     "final", "finally", "for", "forSome", "if", "implicit", "import", "lazy",
     "macro", "match", "new", "null", "object", "override", "package", "private",
     "protected", "return", "sealed", "super", "then", "this", "throw", "trait",
     "try", "true", "type", "val", "var", "while", "with", "yield"}

\* the backquote character, which a TLA+ string cannot hold, is written ^
BackQuote == "^"

\* SCALA_RESERVED_WORDS.includes(name) ? `\`${name}\`` : name
SafeName(name) ==
    IF name \in SCALA_RESERVED_WORDS THEN BackQuote \o name \o BackQuote ELSE name

\* str.charAt(0).toUpperCase() + str.slice(1), as a table over the names of
\* the model that start with a lower-case letter; other names are unchanged
CapitalizeTable ==
    [a |-> "A", b |-> "B", x |-> "X", f |-> "F", g |-> "G", lib |-> "Lib",
     ns |-> "Ns", inner |-> "Inner", opts |-> "Opts", deep |-> "Deep",
     type |-> "Type", val |-> "Val", custom |-> "Custom", size |-> "Size"]

capitalize(str) ==
    IF str \in DOMAIN CapitalizeTable THEN CapitalizeTable[str] ELSE str

\* the package names of the model that fail /^[a-zA-Z_][a-zA-Z0-9_]*$/
\* (every name holding a '-' is among them)
NonIdentifierNames == {"my-lib", "a.b"}

PackageDeclaration(name) ==
    IF name \in NonIdentifierNames \/ name \in SCALA_RESERVED_WORDS
      THEN BackQuote \o name \o BackQuote
      ELSE name

-----------------------------------------------------------------------------
(* The writer (CodeBlockWriter).  The model keeps the non-blank lines it    *)
(* was given, each with the indentation level it was written at and its     *)
(* text as a sequence of tokens; a token carries the role of the text it    *)
(* renders ("" for the fixed text of a template, "type" for a mapped type   *)
(* expression, otherwise the kind of identifier).  `raised` records that a  *)
(* TypeError was thrown: nothing is written after it.                       *)

T(text) == [role |-> "", text |-> text]
Ty(text) == [role |-> "type", text |-> text]
N(role, text) == [role |-> role, text |-> text]

RECURSIVE TextOf(_)
TextOf(toks) == IF Len(toks) = 0 THEN "" ELSE Head(toks).text \o TextOf(Tail(toks))

\* the token sequences joined with a separator token
RECURSIVE JoinToks(_, _)
JoinToks(seqs, sep) ==
    IF Len(seqs) = 0 THEN <<>>
    ELSE IF Len(seqs) = 1 THEN seqs[1]
    ELSE seqs[1] \o <<sep>> \o JoinToks(Tail(seqs), sep)

NewWriter == [lines |-> <<>>, indent |-> 0, raised |-> FALSE]

Line(ind, toks) == [ind |-> ind, toks |-> toks]

\* writer.writeLine(text), writer.write(text).newLine()
WriteLine(w, toks) ==
    IF w.raised THEN w ELSE [w EXCEPT !.lines = Append(@, Line(w.indent, toks))]

\* writer.setIndentationLevel(n)
SetIndent(w, n) == IF w.raised THEN w ELSE [w EXCEPT !.indent = n]

\* writer.write(header).block(...): the header line with its opening brace;
\* the body is written one level deeper
OpenBlock(w, toks) ==
    IF w.raised THEN w
    ELSE [w EXCEPT !.lines = Append(@, Line(w.indent, toks \o <<T("{")>>)),
                   !.indent = @ + 1]

\* a block end that drops the level and writes no closing brace
CloseBlockUnwritten(w) ==
    IF w.raised THEN w
    ELSE [w EXCEPT !.indent = IF w.indent > 0 THEN w.indent - 1 ELSE 0]

\* the end of block(...): the level drops by one, not below 0, and the
\* closing brace is written
CloseBlock(w) ==
    IF w.raised THEN w
    ELSE LET ind == IF w.indent > 0 THEN w.indent - 1 ELSE 0
         IN  [w EXCEPT !.indent = ind, !.lines = Append(@, Line(ind, <<T("}")>>))]

\* a TypeError: reading a property of undefined
Raise(w) == [w EXCEPT !.raised = TRUE]

-----------------------------------------------------------------------------
(* MemberEmitter.                                                           *)

\* tp => `${paramName}${constraint}`
TypeParamToks(tp) ==
    <<N("tparam", tp.name)>>
    \o (IF tp.type # NoType THEN <<T(" <: "), Ty(convertTypeToScala(tp.type))>> ELSE <<>>)

RECURSIVE MapTypeParamToks(_)
MapTypeParamToks(tps) ==
    IF Len(tps) = 0 THEN <<>>
    ELSE <<TypeParamToks(Head(tps))>> \o MapTypeParamToks(Tail(tps))

\* typeParams.length > 0 ? `[${typeParams.join(', ')}]` : ''
TypeParamString(tps) ==
    IF Len(tps) > 0
      THEN <<T("[")>> \o JoinToks(MapTypeParamToks(tps), T(", ")) \o <<T("]")>>
      ELSE <<>>

\* paramType.replace(/^js\.Array\[(.+)\]$/, '$1') over the texts the types of
\* the rest parameters of the model map to: the text of an array, or a text
\* the pattern does not match
ArrayElementText(paramType) ==
    CASE paramType = "js.Array[String]" -> "String"
      [] paramType = "js.Array[Foo]" -> "Foo"
      [] paramType = "js.Array[Double]" -> "Double"
      [] OTHER -> paramType

\* one parameter of a method, for its written name and its mapped type
ParamToks(p, paramName, paramType) ==
    IF HasModifier(p, "...")
      THEN <<N("param", paramName), T(": "), Ty(ArrayElementText(paramType)), T("*")>>
      ELSE <<N("param", paramName), T(": "), Ty(paramType)>>
           \o (IF HasModifier(p, "?") THEN <<T(" = ???")>> ELSE <<>>)

\* one parameter of a class method: the name is written as it is
MethodDeclarationParam(p) == ParamToks(p, p.name, TypeOr(p.type, "js.Any"))

\* one parameter of an interface method: a reserved word is quoted
MethodSignatureParam(p) == ParamToks(p, SafeName(p.name), TypeOr(p.type, "js.Any"))

\* one parameter of a constructor or of a free function
PlainParam(p) == <<N("param", p.name), T(": "), Ty(TypeOr(p.type, "js.Any"))>>

RECURSIVE MapMethodDeclarationParams(_)
MapMethodDeclarationParams(ps) ==
    IF Len(ps) = 0 THEN <<>>
    ELSE <<MethodDeclarationParam(Head(ps))>> \o MapMethodDeclarationParams(Tail(ps))

RECURSIVE MapMethodSignatureParams(_)
MapMethodSignatureParams(ps) ==
    IF Len(ps) = 0 THEN <<>>
    ELSE <<MethodSignatureParam(Head(ps))>> \o MapMethodSignatureParams(Tail(ps))

RECURSIVE MapPlainParams(_)
MapPlainParams(ps) ==
    IF Len(ps) = 0 THEN <<>>
    ELSE <<PlainParam(Head(ps))>> \o MapPlainParams(Tail(ps))

\* ["toString", "clone"].includes(name) ? "override " : ""
OverridePrefix(name) == IF name \in {"toString", "clone"} THEN <<T("override ")>> ELSE <<>>

processPropertyDeclaration(node, w, isAbstractClass) ==
    IF IsPrivateOrProtected(node) THEN w
    ELSE IF HasModifier(node, "static") THEN w
    ELSE WriteLine(w,
            <<T(IF HasModifier(node, "readonly") THEN "def " ELSE "var "),
              N("property", node.name), T(": "), Ty(TypeOr(node.type, "js.Any"))>>
            \o (IF isAbstractClass THEN <<>> ELSE <<T(" = js.native")>>))

processPropertySignature(node, w) ==
    WriteLine(w,
        <<T(IF HasModifier(node, "readonly") THEN "def " ELSE "var "),
          N("property", node.name), T(": "), Ty(TypeOr(node.type, "js.Any")),
          T(" = js.native")>>)

processMethodDeclaration(node, w, isAbstractClass) ==
    IF IsPrivateOrProtected(node) THEN w
    ELSE WriteLine(w,
            OverridePrefix(node.name)
            \o <<T("def "), N("method", SafeName(node.name))>>
            \o TypeParamString(node.tparams)
            \o <<T("(")>>
            \o JoinToks(MapMethodDeclarationParams(node.params), T(", "))
            \o <<T("): "), Ty(TypeOr(node.type, "Unit"))>>
            \o (IF isAbstractClass THEN <<>> ELSE <<T(" = js.native")>>))

processMethodSignature(node, w) ==
    WriteLine(w,
        OverridePrefix(node.name)
        \o <<T("def "), N("method", SafeName(node.name))>>
        \o TypeParamString(node.tparams)
        \o <<T("(")>>
        \o JoinToks(MapMethodSignatureParams(node.params), T(", "))
        \o <<T("): "), Ty(TypeOr(node.type, "js.Dynamic")), T(" = js.native")>>)

\* the accessors of an index signature: apply, and update unless readonly
WriteIndexAccessors(w, paramName, indexType, returnType, isReadonly) ==
    LET w2 == WriteLine(WriteLine(w, <<T("@JSBracketAccess")>>),
                        <<T("def apply("), N("param", paramName), T(": "),
                          Ty(indexType), T("): "), Ty(returnType), T(" = js.native")>>)
    IN  IF isReadonly THEN w2
        ELSE WriteLine(WriteLine(w2, <<T("@JSBracketAccess")>>),
                       <<T("def update("), N("param", paramName), T(": "),
                         Ty(indexType), T(", v: "), Ty(returnType),
                         T("): Unit = js.native")>>)

\* node.parameters[0] of an index signature without parameters is
\* undefined, and reading its type throws
processIndexSignature(node, w) ==
    IF Len(node.params) = 0 THEN Raise(w)
    ELSE WriteIndexAccessors(w, node.params[1].name,
                             TypeOr(node.params[1].type, "js.Any"),
                             TypeOr(node.type, "js.Any"),
                             HasModifier(node, "readonly"))

processClassMember(member, w, isAbstractClass) ==
    CASE member.kind = "PropertyDeclaration" ->
            processPropertyDeclaration(member, w, isAbstractClass)
      [] member.kind = "MethodDeclaration" ->
            processMethodDeclaration(member, w, isAbstractClass)
      [] OTHER -> w

processInterfaceMember(member, w) ==
    CASE member.kind = "PropertySignature" -> processPropertySignature(member, w)
      [] member.kind = "MethodSignature" -> processMethodSignature(member, w)
      [] member.kind = "IndexSignature" -> processIndexSignature(member, w)
      [] OTHER -> w

-----------------------------------------------------------------------------
(* DeclarationEmitter: interfaces.                                          *)

\* the text of the lines of a temporary writer: temp.toString().trim()
RECURSIVE SigText(_)
SigText(lines) ==
    IF Len(lines) = 0 THEN ""
    ELSE IF Len(lines) = 1 THEN TextOf(lines[1].toks)
    ELSE TextOf(lines[1].toks) \o "\n" \o SigText(Tail(lines))

\* writer.writeLine(sig) for the lines of a signature
RECURSIVE AppendLines(_, _)
AppendLines(w, lines) ==
    IF Len(lines) = 0 THEN w
    ELSE AppendLines(WriteLine(w, Head(lines).toks), Tail(lines))

\* `${keyword} ${propName}: ${interfaceName}.${traitName} = js.native`
InlineTypeLiteralLine(member, interfaceName) ==
    <<T(IF HasModifier(member, "readonly") THEN "def " ELSE "var "),
      N("property", member.name), T(": "), N("interface", interfaceName), T("."),
      N("trait", capitalize(member.name)), T(" = js.native")>>

\* if (!seen.has(sig)) { seen.add(sig); writer.writeLine(sig) }; st = [w, seen]
WriteUnseen(st, sig, lines) ==
    IF sig \in st.seen THEN st
    ELSE [w |-> AppendLines(st.w, lines), seen |-> st.seen \cup {sig}]

\* the signature a member wrote to the temporary writer
WriteMemberSignature(st, temp) ==
    IF temp.raised THEN [st EXCEPT !.w = Raise(@)]
    ELSE WriteUnseen(st, SigText(temp.lines), temp.lines)

\* the line of an inline type literal property
WriteInlineTypeLiteralLine(st, line) == WriteUnseen(st, TextOf(line), <<Line(0, line)>>)

\* one member of the trait body
WriteInterfaceTraitMember(member, interfaceName, st) ==
    IF IsInlineTypeLiteralProperty(member)
      THEN WriteInlineTypeLiteralLine(st, InlineTypeLiteralLine(member, interfaceName))
      ELSE WriteMemberSignature(st, processInterfaceMember(member, NewWriter))

RECURSIVE WriteInterfaceTraitMembers(_, _, _)
WriteInterfaceTraitMembers(members, interfaceName, st) ==
    IF Len(members) = 0 \/ st.w.raised THEN st
    ELSE WriteInterfaceTraitMembers(Tail(members), interfaceName,
            WriteInterfaceTraitMember(Head(members), interfaceName, st))

\* members.forEach(m => processInterfaceMember(m, writer))
RECURSIVE ForEachInterfaceMember(_, _)
ForEachInterfaceMember(members, w) ==
    IF Len(members) = 0 THEN w
    ELSE ForEachInterfaceMember(Tail(members), processInterfaceMember(Head(members), w))

\* the traits of the type literals nested in a nested trait
RECURSIVE WriteDeepTraits(_, _)
WriteDeepTraits(deepInlineMembers, w) ==
    IF Len(deepInlineMembers) = 0 THEN w
    ELSE LET nestedPropSig == Head(deepInlineMembers)
             w1 == WriteLine(w, <<T("@js.native")>>)
             w2 == OpenBlock(w1, <<T("trait "), N("trait", capitalize(nestedPropSig.name)),
                                   T(" extends js.Object ")>>)
             w3 == ForEachInterfaceMember(nestedPropSig.type.members, w2)
         IN  WriteDeepTraits(Tail(deepInlineMembers), CloseBlock(w3))

\* the members of a nested trait
RECURSIVE WriteNestedTraitMembers(_, _, _)
WriteNestedTraitMembers(members, traitName, w) ==
    IF Len(members) = 0 THEN w
    ELSE LET nestedMember == Head(members)
             w1 == IF IsInlineTypeLiteralProperty(nestedMember)
                     THEN WriteLine(w, <<T("var "), N("property", nestedMember.name), T(": "),
                                         N("trait", traitName), T("."),
                                         N("trait", capitalize(nestedMember.name)),
                                         T(" = js.native")>>)
                     ELSE processInterfaceMember(nestedMember, w)
         IN  WriteNestedTraitMembers(Tail(members), traitName, w1)

\* the object holding the traits of the inline type literal properties of a
\* nested trait, if it has any
WriteDeepTraitsObject(deepInlineMembers, traitName, w) ==
    IF Len(deepInlineMembers) > 0
      THEN CloseBlock(WriteDeepTraits(deepInlineMembers,
              OpenBlock(w, <<T("object "), N("trait", traitName), T(" ")>>)))
      ELSE w

\* the nested trait of one inline type literal property
WriteInlineTrait(typeLiteral, traitName, w) ==
    WriteDeepTraitsObject(
        SelectSeq(typeLiteral.members, IsInlineTypeLiteralProperty), traitName,
        CloseBlock(WriteNestedTraitMembers(typeLiteral.members, traitName,
            OpenBlock(WriteLine(w, <<T("@js.native")>>),
                      <<T("trait "), N("trait", traitName), T(" extends js.Object ")>>))))

\* the nested trait of each inline type literal property, with the object
\* holding the traits of its own inline type literal properties
RECURSIVE WriteInlineTraits(_, _)
WriteInlineTraits(inlineTypeLiteralMembers, w) ==
    IF Len(inlineTypeLiteralMembers) = 0 THEN w
    ELSE WriteInlineTraits(Tail(inlineTypeLiteralMembers),
            WriteInlineTrait(Head(inlineTypeLiteralMembers).type,
                             capitalize(Head(inlineTypeLiteralMembers).name), w))

writeInterfaceTrait(node, w) ==
    LET w1 == WriteLine(w, <<T("@js.native")>>)
        w2 == OpenBlock(w1, <<T("trait "), N("interface", node.name)>>
                            \o TypeParamString(node.tparams)
                            \o <<T(" extends js.Object ")>>)
        st == WriteInterfaceTraitMembers(node.members, node.name, [w |-> w2, seen |-> {}])
    IN  CloseBlock(st.w)

\* the companion object with the nested traits, if the interface has inline
\* type literal properties
WriteInterfaceCompanion(node, inlineTypeLiteralMembers, w) ==
    IF Len(inlineTypeLiteralMembers) > 0
      THEN CloseBlock(WriteInlineTraits(inlineTypeLiteralMembers,
              OpenBlock(w, <<T("object "), N("interface", node.name), T(" ")>>)))
      ELSE w

processInterfaceDeclaration(node, w, namespace) ==
    SetIndent(
        WriteInterfaceCompanion(node, SelectSeq(node.members, IsInlineTypeLiteralProperty),
                                writeInterfaceTrait(node, SetIndent(w, 0))),
        w.indent)

-----------------------------------------------------------------------------
(* DeclarationEmitter: classes.                                             *)

\* the dotted text of a namespace path
NamespaceText(namespace) == Join(namespace, ".")

\* @JSGlobal("<path>")
JSGlobalLine(path) == <<T("@JSGlobal(\""), N("jsglobal", path), T("\")")>>

IsStatic(member) == HasModifier(member, "static")
IsConstructor(member) == member.kind = "Constructor"
IsParamCtor(member) == member.kind = "Constructor" /\ Len(member.params) > 0
IsStaticMethod(member) == IsStatic(member) /\ member.kind = "MethodDeclaration"
IsStaticProperty(member) == IsStatic(member) /\ member.kind = "PropertyDeclaration"
IsExtendsClause(h) == h.token = "extends"

\* h.types.forEach(t => heritageTypes.push(t.expression.getText()))
RECURSIVE HeritageTypes(_)
HeritageTypes(clauses) ==
    IF Len(clauses) = 0 THEN <<>>
    ELSE Head(clauses).types \o HeritageTypes(Tail(clauses))

\* [extendsType, ...heritageTypes]
HeritageList(node) ==
    LET heritageTypes == HeritageTypes(node.heritage)
        extendsClauses == SelectSeq(node.heritage, IsExtendsClause)
    IN  IF Len(heritageTypes) > 0
          THEN IF Len(extendsClauses) > 0 /\ Len(extendsClauses[1].types) > 0
                 THEN <<extendsClauses[1].types[1]>> \o Tail(heritageTypes)
                 ELSE heritageTypes
          ELSE <<"js.Object">>

RECURSIVE HeritageToks(_)
HeritageToks(types) ==
    IF Len(types) = 0 THEN <<>>
    ELSE <<<<N("heritage", Head(types))>>>> \o HeritageToks(Tail(types))

\* a secondary constructor for every declared constructor, the
\* parameterless ones included
RECURSIVE WriteSecondaryConstructorsForAll(_, _)
WriteSecondaryConstructorsForAll(ctorDeclarations, w) ==
    IF Len(ctorDeclarations) = 0 THEN w
    ELSE WriteSecondaryConstructorsForAll(Tail(ctorDeclarations),
            WriteLine(w, <<T("def this(")>>
                         \o JoinToks(MapPlainParams(Head(ctorDeclarations).params), T(", "))
                         \o <<T(") = this()")>>))

\* def this(params) = this() for each constructor with parameters
RECURSIVE WriteSecondaryConstructors(_, _)
WriteSecondaryConstructors(ctorDeclarations, w) ==
    IF Len(ctorDeclarations) = 0 THEN w
    ELSE LET cons == Head(ctorDeclarations)
             w1 == IF Len(cons.params) = 0 THEN w
                   ELSE WriteLine(w, <<T("def this(")>>
                                     \o JoinToks(MapPlainParams(cons.params), T(", "))
                                     \o <<T(") = this()")>>)
         IN  WriteSecondaryConstructors(Tail(ctorDeclarations), w1)

\* the members of the class body without the test of the static modifier
RECURSIVE WriteInstanceMembersWithStatics(_, _, _)
WriteInstanceMembersWithStatics(members, w, isAbstract) ==
    IF Len(members) = 0 THEN w
    ELSE WriteInstanceMembersWithStatics(Tail(members),
            processClassMember(Head(members), w, isAbstract), isAbstract)

\* the non-static members of the class body
RECURSIVE WriteInstanceMembers(_, _, _)
WriteInstanceMembers(members, w, isAbstract) ==
    IF Len(members) = 0 THEN w
    ELSE WriteInstanceMembers(Tail(members),
            IF IsStatic(Head(members)) THEN w
            ELSE processClassMember(Head(members), w, isAbstract),
            isAbstract)

RECURSIVE WriteStaticProperties(_, _)
WriteStaticProperties(staticProperties, w) ==
    IF Len(staticProperties) = 0 THEN w
    ELSE LET prop == Head(staticProperties)
             w1 == IF IsPrivateOrProtected(prop) THEN w
                   ELSE WriteLine(w,
                          <<T(IF HasModifier(prop, "readonly") THEN "val " ELSE "var "),
                            N("property", prop.name), T(": "),
                            Ty(TypeOr(prop.type, "js.Any")), T(" = js.native")>>)
         IN  WriteStaticProperties(Tail(staticProperties), w1)

RECURSIVE WriteStaticMethods(_, _)
WriteStaticMethods(staticMethods, w) ==
    IF Len(staticMethods) = 0 THEN w
    ELSE LET m == Head(staticMethods)
             w1 == IF IsPrivateOrProtected(m) THEN w
                   ELSE processMethodDeclaration(m, w, FALSE)
         IN  WriteStaticMethods(Tail(staticMethods), w1)

\* the companion object holding the static members, if the class has any
WriteCompanionObject(node, w, namespace) ==
    LET className == IF node.name = "" THEN "AnonymousClass" ELSE node.name
        staticMethods == SelectSeq(node.members, IsStaticMethod)
        staticProperties == SelectSeq(node.members, IsStaticProperty)
        w1 == WriteLine(w, <<T("@js.native")>>)
        \* namespace.split('.').pop(): the last segment of the path
        w2 == IF Len(namespace) > 0
                THEN WriteLine(w1, JSGlobalLine(namespace[Len(namespace)] \o "." \o className))
                ELSE WriteLine(w1, <<T("@JSGlobal")>>)
        w3 == OpenBlock(w2, <<T("object "), N("class", SafeName(className)),
                              T(" extends js.Object ")>>)
    IN  IF Len(staticMethods) > 0 \/ Len(staticProperties) > 0
          THEN CloseBlock(WriteStaticMethods(staticMethods,
                            WriteStaticProperties(staticProperties, w3)))
          ELSE w

processClassDeclaration(node, w, namespace) ==
    LET className == IF node.name = "" THEN "AnonymousClass" ELSE node.name
        isAbstract == HasModifier(node, "abstract")
        ctorDeclarations == SelectSeq(node.members, IsConstructor)
        hasParamCtor == Len(SelectSeq(node.members, IsParamCtor)) > 0
        w1 == WriteLine(SetIndent(w, 0), <<T("@js.native")>>)
        w2 == IF Len(namespace) > 0
                THEN WriteLine(w1, JSGlobalLine(NamespaceText(namespace) \o "." \o className))
                ELSE WriteLine(w1, <<T("@JSGlobal")>>)
        w3 == OpenBlock(w2,
                (IF isAbstract THEN <<T("abstract ")>> ELSE <<>>)
                \o <<T("class "), N("class", SafeName(className))>>
                \o TypeParamString(node.tparams)
                \o (IF hasParamCtor THEN <<T(" protected ()")>> ELSE <<>>)
                \o <<T(" extends ")>>
                \o JoinToks(HeritageToks(HeritageList(node)), T(" with "))
                \o <<T(" ")>>)
        w4 == WriteSecondaryConstructors(ctorDeclarations, w3)
        w5 == CloseBlock(WriteInstanceMembers(node.members, w4, isAbstract))
    IN  SetIndent(WriteCompanionObject(node, w5, namespace), w.indent)

-----------------------------------------------------------------------------
(* DeclarationEmitter: enums, variables, modules.                           *)

\* the bindings of the enum members without the first one
RECURSIVE WriteEnumMembersButFirst(_, _, _)
WriteEnumMembersButFirst(members, enumName, w) ==
    IF Len(members) <= 1 THEN w
    ELSE WriteEnumMembersButFirst(Tail(members), enumName,
            WriteLine(w, <<T("var "), N("member", members[2].name), T(": "),
                           N("enum", enumName), T(" = js.native")>>))

RECURSIVE WriteEnumMembers(_, _, _)
WriteEnumMembers(members, enumName, w) ==
    IF Len(members) = 0 THEN w
    ELSE LET memberName == Head(members).name
             w1 == IF memberName # ""
                     THEN WriteLine(w, <<T("var "), N("member", memberName), T(": "),
                                         N("enum", enumName), T(" = js.native")>>)
                     ELSE w
         IN  WriteEnumMembers(Tail(members), enumName, w1)

processEnumDeclaration(node, w, namespace) ==
    LET enumName == node.name
        currentIndentLevel == w.indent
        w1 == WriteLine(SetIndent(w, 0), <<T("@js.native")>>)
        w2 == CloseBlock(OpenBlock(w1, <<T("sealed trait "), N("enum", enumName),
                                         T(" extends js.Object ")>>))
        w3 == WriteLine(w2, <<T("@js.native")>>)
        w4 == IF Len(namespace) > 0
                THEN WriteLine(w3, JSGlobalLine(NamespaceText(namespace) \o "." \o enumName))
                ELSE WriteLine(w3, JSGlobalLine(enumName))
        w5 == OpenBlock(w4, <<T("object "), N("enum", enumName), T(" extends js.Object ")>>)
        w6 == WriteEnumMembers(node.members, enumName, w5)
        w7 == WriteLine(w6, <<T("@JSBracketAccess")>>)
        w8 == WriteLine(w7, <<T("def apply(value: "), N("enum", enumName),
                              T("): String = js.native")>>)
    IN  SetIndent(CloseBlock(w8), currentIndentLevel)

\* the member names of the model that match /^[0-9]/ or hold a '.'
NumericOrDottedNames == {"0", "1.5"}

\* the members of the type literal of a variable
RECURSIVE WriteObjectMembers(_, _)
WriteObjectMembers(members, w) ==
    IF Len(members) = 0 THEN w
    ELSE LET member == Head(members)
             memberName == IF member.name = "" THEN "unknown" ELSE member.name
             safeMemberName == IF memberName \in NumericOrDottedNames
                                 THEN BackQuote \o memberName \o BackQuote
                                 ELSE memberName
             w1 == IF member.kind = "PropertySignature"
                     THEN WriteLine(w, <<T("var "), N("property", safeMemberName), T(": "),
                                         Ty(TypeOr(member.type, "js.Any")),
                                         T(" = js.native")>>)
                     ELSE w
         IN  WriteObjectMembers(Tail(members), w1)

\* one declaration of a variable statement
processVariableDeclaration(decl, w, namespace) ==
    IF decl.type.kind = "TypeLiteral"
      THEN LET currentIndentLevel == w.indent
               w1 == WriteLine(SetIndent(w, 0), <<T("@js.native")>>)
               w2 == IF Len(namespace) > 0
                       THEN WriteLine(w1, JSGlobalLine(NamespaceText(namespace) \o "."
                                                       \o decl.name))
                       ELSE WriteLine(w1, <<T("@JSGlobal")>>)
               w3 == OpenBlock(w2, <<T("object "), N("variable", decl.name),
                                     T(" extends js.Object ")>>)
               w4 == CloseBlock(WriteObjectMembers(decl.type.members, w3))
           IN  SetIndent(w4, currentIndentLevel)
      ELSE w

RECURSIVE ForEachVariableDeclaration(_, _, _)
ForEachVariableDeclaration(decls, w, namespace) ==
    IF Len(decls) = 0 THEN w
    ELSE ForEachVariableDeclaration(Tail(decls),
            processVariableDeclaration(Head(decls), w, namespace), namespace)

processVariableStatement(node, w, namespace) ==
    ForEachVariableDeclaration(node.members, w, namespace)

\* type aliases, functions and export assignments are deferred to the
\* container of their scope
processTypeAliasDeclaration(node, w, namespace) == w
processFunctionDeclaration(node, w, namespace) == w
processExportAssignment(node, w, namespace) == w

\* modifiers?.some(mod => mod.kind === ExportKeyword) ?? false
hasExportModifier(node) == HasModifier(node, "export")

getTypeAliasName(typeAlias) ==
    <<N("alias", typeAlias.name)>> \o TypeParamString(typeAlias.tparams)

convertTypeAliasToScala(typeAlias) == convertTypeToScala(typeAlias.type)

-----------------------------------------------------------------------------
(* ExportAggregator.                                                        *)

IsTypeAlias(statement) == statement.kind = "TypeAliasDeclaration"
IsFunction(statement) == statement.kind = "FunctionDeclaration"
IsTypeLiteralVariable(decl) == decl.type.kind = "TypeLiteral"
\* decl.type && !ts.isTypeLiteralNode(decl.type)
IsGlobalScopeVariable(decl) == decl.type # NoType /\ decl.type.kind # "TypeLiteral"
\* !(decl.type && ts.isTypeLiteralNode(decl.type))
IsModuleVariable(decl) == ~IsTypeLiteralVariable(decl)

\* type ${typeName} = ${typeValue}
RECURSIVE WriteTypeAliases(_, _)
WriteTypeAliases(types, w) ==
    IF Len(types) = 0 THEN w
    ELSE WriteTypeAliases(Tail(types),
            WriteLine(w, <<T("type ")>> \o getTypeAliasName(Head(types))
                         \o <<T(" = "), Ty(convertTypeAliasToScala(Head(types)))>>))

\* ${keyword} ${varName}: ${varType} = js.native
RECURSIVE WriteVariables(_, _)
WriteVariables(variables, w) ==
    IF Len(variables) = 0 THEN w
    ELSE LET variable == Head(variables)
         IN  WriteVariables(Tail(variables),
                WriteLine(w, <<T(IF HasModifier(variable, "const") THEN "val " ELSE "def "),
                               N("variable", variable.name), T(": "),
                               Ty(TypeOr(variable.type, "js.Any")), T(" = js.native")>>))

\* the functions of a module object: type parameters, js.Dynamic by default;
\* func.name! of a function without a name is undefined and getText() throws
RECURSIVE WriteModuleFunctions(_, _)
WriteModuleFunctions(functions, w) ==
    IF Len(functions) = 0 \/ w.raised THEN w
    ELSE WriteModuleFunctions(Tail(functions),
            IF Head(functions).name = "" THEN Raise(w)
            ELSE WriteLine(w, <<T("def "), N("function", Head(functions).name)>>
                              \o TypeParamString(Head(functions).tparams)
                              \o <<T("(")>>
                              \o JoinToks(MapPlainParams(Head(functions).params), T(", "))
                              \o <<T("): "), Ty(TypeOr(Head(functions).type, "js.Dynamic")),
                                   T(" = js.native")>>))

generateModuleObject(moduleName, exports, w) ==
    IF Len(exports.types) = 0 /\ Len(exports.functions) = 0 /\ Len(exports.variables) = 0
      THEN w
      ELSE LET w1 == WriteLine(SetIndent(w, 0), <<T("@js.native")>>)
               w2 == WriteLine(w1, JSGlobalLine(moduleName))
               w3 == OpenBlock(w2, <<T("object "), N("object", capitalize(moduleName)),
                                     T(" extends js.Object ")>>)
               w4 == WriteTypeAliases(exports.types, w3)
               w5 == WriteVariables(exports.variables, w4)
               w6 == WriteModuleFunctions(exports.functions, w5)
           IN  SetIndent(CloseBlock(w6), w.indent)

\* def ${functionName}(${params}): ${returnType} = js.native
GlobalFunctionLine(func) ==
    <<T("def "), N("function", func.name), T("(")>>
    \o JoinToks(MapPlainParams(func.params), T(", "))
    \o <<T("): "), Ty(TypeOr(func.type, "Unit")), T(" = js.native")>>

\* emit(line): the line is written unless its text was emitted before;
\* st = [w, emitted]
emit(st, line) ==
    IF TextOf(line) \in st.emitted THEN st
    ELSE [w |-> WriteLine(st.w, line), emitted |-> st.emitted \cup {TextOf(line)}]

\* exports.functions.find(func => func.name?.getText() === exportedName)
FindFunction(functions, exportedName) ==
    SelectSeq(functions, LAMBDA func : func.name # "" /\ func.name = exportedName)

\* the forwarding binding of one export assignment
WriteExportAssignment(exportAssignment, found, st) ==
    IF exportAssignment.sub = "Identifier" /\ Len(found) > 0
      THEN emit(st, GlobalFunctionLine(found[1]))
      ELSE st

\* the forwarding binding of each export assignment whose expression is an
\* identifier naming a collected function
RECURSIVE WriteExportAssignments(_, _, _)
WriteExportAssignments(exportAssignments, functions, st) ==
    IF Len(exportAssignments) = 0 THEN st
    ELSE WriteExportAssignments(Tail(exportAssignments), functions,
            WriteExportAssignment(Head(exportAssignments),
                FindFunction(functions, Head(exportAssignments).name), st))

\* the direct binding of each collected function; func.name! of a function
\* without a name is undefined and getText() throws
RECURSIVE WriteGlobalFunctions(_, _)
WriteGlobalFunctions(functions, st) ==
    IF Len(functions) = 0 \/ st.w.raised THEN st
    ELSE WriteGlobalFunctions(Tail(functions),
            IF Head(functions).name = "" THEN [st EXCEPT !.w = Raise(@)]
            ELSE emit(st, GlobalFunctionLine(Head(functions))))

generateGlobalScopeObject(pkg, exports, w) ==
    IF Len(exports.types) = 0 /\ Len(exports.functions) = 0
       /\ Len(exports.exportAssignments) = 0 /\ Len(exports.variables) = 0
      THEN w
      ELSE LET w1 == WriteLine(SetIndent(w, 0), <<T("@js.native")>>)
               w2 == WriteLine(w1, <<T("@JSGlobalScope")>>)
               w3 == OpenBlock(w2, <<T("object "), N("object", capitalize(pkg)),
                                     T(" extends js.Object ")>>)
               st4 == [w |-> WriteTypeAliases(exports.types, w3), emitted |-> {}]
               st5 == WriteExportAssignments(exports.exportAssignments, exports.functions, st4)
               st6 == [st5 EXCEPT !.w = WriteVariables(exports.variables, @)]
               st7 == WriteGlobalFunctions(exports.functions, st6)
           IN  SetIndent(CloseBlock(st7.w), w.indent)

\* the declarations of the variable statements among the statements
RECURSIVE VariableDeclarations(_)
VariableDeclarations(statements) ==
    IF Len(statements) = 0 THEN <<>>
    ELSE (IF Head(statements).kind = "VariableStatement"
            THEN Head(statements).members ELSE <<>>)
         \o VariableDeclarations(Tail(statements))

\* the exports collected from the statements of a module block
ModuleExports(statements) ==
    [types |-> SelectSeq(statements, IsTypeAlias),
     functions |-> SelectSeq(statements, IsFunction),
     variables |-> SelectSeq(VariableDeclarations(statements), IsModuleVariable)]

RECURSIVE processStatement(_, _, _)
RECURSIVE processModuleDeclaration(_, _, _)
RECURSIVE ForEachModuleStatement(_, _, _)

\* a namespace block that writes its container before its declarations
processModuleDeclarationContainerFirst(node, w, namespace) ==
    IF node.sub = "StringLiteral" THEN w
    ELSE
    LET moduleName == node.name
        w1 == OpenBlock(SetIndent(w, 0),
                        <<T("package "), N("namespace", SafeName(moduleName)), T(" ")>>)
        w2 == IF node.body = "ModuleBlock"
                THEN ForEachModuleStatement(node.members,
                        generateModuleObject(moduleName, ModuleExports(node.members), w1),
                        Append(namespace, moduleName))
                ELSE w1
    IN  SetIndent(CloseBlock(SetIndent(w2, 0)), w.indent)

\* a namespace block that returns for a quoted module specifier after it has
\* set the indentation level, without restoring it
processModuleDeclarationUnrestored(node, w, namespace) ==
    IF node.sub = "StringLiteral" THEN SetIndent(w, 0)
    ELSE
    LET moduleName == node.name
        w1 == OpenBlock(SetIndent(w, 0),
                        <<T("package "), N("namespace", SafeName(moduleName)), T(" ")>>)
        w2 == IF node.body = "ModuleBlock"
                THEN generateModuleObject(moduleName, ModuleExports(node.members),
                        ForEachModuleStatement(node.members, w1,
                                               Append(namespace, moduleName)))
                ELSE w1
    IN  SetIndent(CloseBlock(SetIndent(w2, 0)), w.indent)

processStatement(statement, w, namespace) ==
    CASE statement.kind = "ModuleDeclaration" ->
            processModuleDeclaration(statement, w, namespace)
      [] statement.kind = "ClassDeclaration" ->
            processClassDeclaration(statement, w, namespace)
      [] statement.kind = "InterfaceDeclaration" ->
            processInterfaceDeclaration(statement, w, namespace)
      [] statement.kind = "EnumDeclaration" ->
            processEnumDeclaration(statement, w, namespace)
      [] statement.kind = "TypeAliasDeclaration" ->
            processTypeAliasDeclaration(statement, w, namespace)
      [] statement.kind = "VariableStatement" ->
            processVariableStatement(statement, w, namespace)
      [] statement.kind = "FunctionDeclaration" ->
            processFunctionDeclaration(statement, w, namespace)
      [] statement.kind = "ExportAssignment" ->
            processExportAssignment(statement, w, namespace)
      [] OTHER -> w

ForEachModuleStatement(statements, w, newNamespace) ==
    IF Len(statements) = 0 \/ w.raised THEN w
    ELSE ForEachModuleStatement(Tail(statements),
            processStatement(Head(statements), w, newNamespace), newNamespace)

processModuleDeclaration(node, w, namespace) ==
    IF node.sub = "StringLiteral" THEN w
    ELSE
    LET moduleName == node.name
        newNamespace == Append(namespace, moduleName)
        currentIndentLevel == w.indent
        w1 == OpenBlock(SetIndent(w, 0),
                        <<T("package "), N("namespace", SafeName(moduleName)), T(" ")>>)
        w2 == IF node.body = "ModuleBlock"
                THEN generateModuleObject(moduleName, ModuleExports(node.members),
                        ForEachModuleStatement(node.members, w1, newNamespace))
                ELSE w1
    IN  SetIndent(CloseBlock(SetIndent(w2, 0)), currentIndentLevel)

-----------------------------------------------------------------------------
(* The inputs of convertTsToScala.  ts.createSourceFile is error-tolerant:  *)
(* for any text it returns a source file, with the statements it recovered  *)
(* and the parse diagnostics it recorded.  The model draws the parsed       *)
(* source file: `diagnostics` tells whether the text had a syntax error.    *)

MaxStmts == 2       \* top-level statements of a generated source file

NumberT == Kw("NumberKeyword")
VoidT == Kw("VoidKeyword")

\* declare function f(x: number): void;
FuncF == Func("f", {"declare"}, <<>>, <<Param("x", {}, NumberT)>>, VoidT)
\* export function g<T>(type: string);
FuncG == Func("g", {"export"}, <<TParam("T", NoType)>>, <<Param("type", {}, StringT)>>, NoType)
\* export default function (x: number): void;
FuncAnonymous == Func("", {"export", "default"}, <<>>, <<Param("x", {}, NumberT)>>, VoidT)
\* type A = string;
AliasA == Alias("A", <<>>, StringT)
\* export type B<T extends Foo> = 'a' | string;
AliasB == [Alias("B", <<TParam("T", Foo)>>, Union(<<StrA, StringT>>)) EXCEPT !.mods = {"export"}]
\* declare const x: number;
VarX == VarStmt(<<VarDecl("x", {"const"}, NumberT)>>)
\* declare var b;
VarUntyped == VarStmt(<<VarDecl("b", {}, NoType)>>)
\* declare var opts: { 0: string; size; (): void };
VarObject ==
    VarStmt(<<VarDecl("opts", {},
                TypeLit(<<PropertySig("0", {}, StringT), PropertySig("size", {}, NoType),
                          DN("CallSignature", "")>>))>>)
\* export = f;
ExportF == ExportAssign("Identifier", "f")
\* export = a.b;
ExportProperty == ExportAssign("PropertyAccessExpression", "a.b")
\* import x from "y";
ImportX == DN("ImportDeclaration", "")
\* enum E { A, B }
EnumE == Enum("E", <<DN("EnumMember", "A"), DN("EnumMember", "B")>>)
\* enum Color { Red, Green, Blue }
EnumColor ==
    Enum("Color", <<DN("EnumMember", "Red"), DN("EnumMember", "Green"),
                    DN("EnumMember", "Blue")>>)

\* export abstract class val<T extends Foo> extends Base implements I, J {
\*   constructor(); constructor(type: string);
\*   readonly a: string; private b: number; static c; private static d: string;
\*   addEventListener(type: string, ...rest: string[]): void;
\*   protected p(): void; static val<U>(x?: number); private static q(): void;
\*   toString(): string; [key: string]: Foo }
ClassVal ==
    Class("val", {"export", "abstract"}, <<TParam("T", Foo)>>,
          <<Heritage("extends", <<"Base">>), Heritage("implements", <<"I", "J">>)>>,
          <<Ctor({}, <<>>), Ctor({}, <<Param("type", {}, StringT)>>),
            Property("a", {"readonly"}, StringT), Property("b", {"private"}, NumberT),
            Property("c", {"static"}, NoType), Property("d", {"private", "static"}, StringT),
            Method("addEventListener", {}, <<>>,
                   <<Param("type", {}, StringT), Param("rest", {"..."}, Arr(StringT))>>, VoidT),
            Method("p", {"protected"}, <<>>, <<>>, VoidT),
            Method("val", {"static"}, <<TParam("U", NoType)>>,
                   <<Param("x", {"?"}, NumberT)>>, NoType),
            Method("q", {"private", "static"}, <<>>, <<>>, VoidT),
            Method("toString", {}, <<>>, <<>>, StringT),
            IndexSig({}, <<Param("key", {}, StringT)>>, Foo)>>)

\* class C implements I { x: number }
ClassC ==
    Class("C", {}, <<>>, <<Heritage("implements", <<"I">>)>>,
          <<Property("x", {}, NumberT)>>)

\* interface type<T> { on(type: string, ...val: Array<Foo>): void; on(type: string,
\*   ...val: Array<Foo>): void; readonly [i: number]: Foo; [k: string]: Foo;
\*   readonly opts: { deep: { x: number }; a?: string; m(): void }; opts: { }; clone() }
InterfaceType ==
    Interface("type", <<TParam("T", NoType)>>,
        <<MethodSig("on", <<>>,
                    <<Param("type", {}, StringT),
                      Param("val", {"..."}, Ref("Array", <<Foo>>))>>, VoidT),
          MethodSig("on", <<>>,
                    <<Param("type", {}, StringT),
                      Param("val", {"..."}, Ref("Array", <<Foo>>))>>, VoidT),
          IndexSig({"readonly"}, <<Param("i", {}, NumberT)>>, Foo),
          IndexSig({}, <<Param("k", {}, StringT)>>, Foo),
          PropertySig("opts", {"readonly"},
              TypeLit(<<PropertySig("deep", {}, TypeLit(<<PropertySig("x", {}, NumberT)>>)),
                        PropertySig("a", {"?"}, StringT),
                        MethodSig("m", <<>>, <<>>, VoidT)>>)),
          PropertySig("opts", {}, TypeLit(<<>>)),
          MethodSig("clone", <<>>, <<Param("x", {"?"}, NoType)>>, NoType)>>)

\* export interface I { a: string }
InterfaceI ==
    [Interface("I", <<>>, <<PropertySig("a", {}, StringT)>>) EXCEPT !.mods = {"export"}]

\* declare namespace ns { function f(x: number): void; function f(x: number): void;
\*   type A = string; var b; const x: number; var opts: { ... }; enum Color { Red, Green, Blue }
\*   namespace inner { class C implements I { static x: number } } }
ModuleNs ==
    Module("Identifier", "ns", "ModuleBlock",
           <<FuncF, FuncF, AliasA, VarUntyped, VarX, VarObject, EnumColor,
             Module("Identifier", "inner", "ModuleBlock",
                    <<[ClassC EXCEPT !.members =
                          <<Property("x", {"static"}, NumberT)>>]>>)>>)

\* declare namespace type { interface I { a: string } }
ModuleType == Module("Identifier", "type", "ModuleBlock", <<InterfaceI>>)
\* declare namespace a.b { class C implements I { x: number } type A = string; }
\* the body of the declaration of a is the declaration of b
ModuleDotted ==
    Module("Identifier", "a", "ModuleDeclaration",
           <<Module("Identifier", "b", "ModuleBlock", <<ClassC, AliasA>>)>>)
\* declare module "lib" { type A = string; }
ModuleString == Module("StringLiteral", "lib", "ModuleBlock", <<AliasA>>)
\* export { A };
ExportNames == DN("ExportDeclaration", "")
\* a statement of no declaration kind: the empty statement `;`
EmptyStatement == DN("EmptyStatement", "")
\* declare namespace ns { import x from "y"; ; declare module "lib" { type A = string; }
\*   namespace inner { type A = string; export { A }; } }
ModuleNested ==
    Module("Identifier", "ns", "ModuleBlock",
           <<ImportX, EmptyStatement, ModuleString,
             Module("Identifier", "inner", "ModuleBlock", <<AliasA, ExportNames>>)>>)
\* declare class P { private constructor(x: number); private static d: string; }
ClassPrivateCtor ==
    Class("P", {}, <<>>, <<>>,
          <<Ctor({"private"}, <<Param("x", {}, NumberT)>>),
            Property("d", {"private", "static"}, StringT)>>)
\* declare class D implements I extends Base { }
ClassImplementsFirst ==
    Class("D", {}, <<>>,
          <<Heritage("implements", <<"I">>), Heritage("extends", <<"Base">>)>>, <<>>)
\* interface Tree { opts: { deep: { inner: { x: number } } } }
InterfaceTree ==
    Interface("Tree", <<>>,
        <<PropertySig("opts", {},
            TypeLit(<<PropertySig("deep", {},
                TypeLit(<<PropertySig("inner", {},
                    TypeLit(<<PropertySig("x", {}, NumberT)>>))>>))>>))>>)
\* declare namespace ns { export default function (x: number): void; }
ModuleAnonymous == Module("Identifier", "ns", "ModuleBlock", <<FuncAnonymous>>)

SampleStatements ==
    {FuncF, FuncG, FuncAnonymous, AliasA, AliasB, VarX, VarUntyped, VarObject,
     ExportF, ExportProperty, ImportX, EnumE, ClassVal, ClassC, InterfaceType,
     InterfaceI, ModuleNs, ModuleType, ModuleDotted, ModuleString, ModuleAnonymous,
     ModuleNested, ClassPrivateCtor, ClassImplementsFirst, InterfaceTree}

\* the statement lists of the texts without a syntax error
ValidStatementLists == UNION {[1..k -> SampleStatements] : k \in 0..MaxStmts}

\* what the parser recovers from a text with a syntax error, e.g. nothing
\* from `}`, the alias from `type A = string; }`, the interface without
\* members from `interface I {`
RecoveredStatementLists ==
    {<<>>, <<AliasA>>, <<FuncF>>, <<Interface("I", <<>>, <<>>)>>}

SourceFiles ==
    {[diagnostics |-> FALSE, statements |-> ss] : ss \in ValidStatementLists}
    \cup {[diagnostics |-> TRUE, statements |-> ss] : ss \in RecoveredStatementLists}

PackageNames == {"lib", "my-lib", "type"}

NoExports ==
    [interfaces |-> <<>>, types |-> <<>>, classes |-> <<>>, functions |-> <<>>,
     exportAssignments |-> <<>>, variables |-> <<>>]

-----------------------------------------------------------------------------
(* convertTsToScala as a state machine: the call, one step per top-level    *)
(* statement, and the close of the file scope.                              *)

Init ==
    /\ input \in SourceFiles
    /\ packageName \in PackageNames
    /\ pc = "called"
    /\ idx = 0
    /\ writer = NewWriter
    /\ topLevelExports = NoExports
    /\ result = <<>>
    /\ calls = <<>>
    /\ tnode = NoType
    /\ tres = ""
    /\ tentries = <<>>
    /\ tprev = ""
    /\ twraps = 0
    /\ tpc = "idle"
    /\ IdleDriver /\ IdleApp /\ IdleHighlighter

\* the record of a call that ended: its arguments, whether it threw, and the
\* text it returned
Outcome(source, package, threw, text) ==
    [input |-> source, packageName |-> package, raised |-> threw, result |-> text]

\* the start of a call that collects into the exports of the call before
ConvertKeepingExports ==
    /\ pc = "called"
    /\ writer' = OpenBlock(
                    WriteLine(WriteLine(WriteLine(NewWriter,
                        <<T("import scala.scalajs.js")>>),
                        <<T("import js.annotation._")>>),
                        <<T("import js.|")>>),
                    <<T("package "), N("package", PackageDeclaration(packageName)), T(" ")>>)
    /\ idx' = 1
    /\ pc' = "statements"
    /\ UNCHANGED <<input, packageName, result, calls, topLevelExports>>
    /\ UNCHANGED <<tvars, dvars, uvars, hvars>>

\* convertTsToScala up to the statement loop of generateScalaOutput: the
\* source file is taken as the parser returned it, the imports and the
\* opening of the package block are written
Convert ==
    /\ pc = "called"
    /\ writer' = OpenBlock(
                    WriteLine(WriteLine(WriteLine(NewWriter,
                        <<T("import scala.scalajs.js")>>),
                        <<T("import js.annotation._")>>),
                        <<T("import js.|")>>),
                    <<T("package "), N("package", PackageDeclaration(packageName)), T(" ")>>)
    /\ topLevelExports' = NoExports
    /\ idx' = 1
    /\ pc' = "statements"
    /\ UNCHANGED <<input, packageName, result, calls>>
    /\ UNCHANGED <<tvars, dvars, uvars, hvars>>

\* the exports one top-level statement adds to topLevelExports
CollectTopLevel(exports, statement) ==
    LET e1 == IF hasExportModifier(statement) /\ statement.kind = "InterfaceDeclaration"
                THEN [exports EXCEPT !.interfaces = Append(@, statement)]
              ELSE IF hasExportModifier(statement) /\ statement.kind = "ClassDeclaration"
                THEN [exports EXCEPT !.classes = Append(@, statement)]
              ELSE exports
    IN  CASE statement.kind = "FunctionDeclaration" ->
                [e1 EXCEPT !.functions = Append(@, statement)]
          [] statement.kind = "ExportAssignment" ->
                [e1 EXCEPT !.exportAssignments = Append(@, statement)]
          [] statement.kind = "VariableStatement" ->
                [e1 EXCEPT !.variables = @ \o SelectSeq(statement.members, IsGlobalScopeVariable)]
          [] statement.kind = "TypeAliasDeclaration" ->
                [e1 EXCEPT !.types = Append(@, statement)]
          [] OTHER -> e1

\* one round of sourceFile.statements.forEach: collect, then processStatement
ProcessTopLevelStatement ==
    /\ pc = "statements"
    /\ idx <= Len(input.statements)
    /\ topLevelExports' = CollectTopLevel(topLevelExports, input.statements[idx])
    /\ writer' = processStatement(input.statements[idx], writer, <<>>)
    /\ pc' = IF writer'.raised THEN "raised" ELSE "statements"
    /\ idx' = idx + 1
    /\ calls' = IF writer'.raised THEN Append(calls, Outcome(input, packageName, TRUE, <<>>))
                 ELSE calls
    /\ UNCHANGED <<input, packageName, result>>
    /\ UNCHANGED <<tvars, dvars, uvars, hvars>>

\* the close of the file scope: the container of the collected exports, the
\* closing brace of the package block, and the return of writer.toString();
\* a TypeError thrown by the container leaves convert without a result
FinishFile ==
    /\ pc = "statements"
    /\ idx > Len(input.statements)
    /\ writer' = CloseBlock(SetIndent(
                    IF Len(topLevelExports.types) > 0
                       \/ Len(topLevelExports.exportAssignments) > 0
                       \/ Len(topLevelExports.variables) > 0
                      THEN generateGlobalScopeObject(packageName, topLevelExports, writer)
                      ELSE writer,
                    0))
    /\ pc' = IF writer'.raised THEN "raised" ELSE "returned"
    /\ result' = IF writer'.raised THEN <<>> ELSE writer'.lines
    /\ calls' = Append(calls, Outcome(input, packageName, writer'.raised, result'))
    /\ UNCHANGED <<input, packageName, idx, topLevelExports>>
    /\ UNCHANGED <<tvars, dvars, uvars, hvars>>

Next == Convert \/ ProcessTopLevelStatement \/ FinishFile

Spec == Init /\ [][Next]_vars

-----------------------------------------------------------------------------
(* Successive calls of convertTsToScala in one process.  The module keeps   *)
(* no variable besides the constant SCALA_RESERVED_WORDS: what a call       *)
(* leaves behind is garbage that the next call replaces.                    *)

MaxCalls == 3       \* calls of convertTsToScala in one process

\* the source files of the successive calls
CallSources ==
    {[diagnostics |-> FALSE, statements |-> ss] :
        ss \in {<<>>, <<FuncF, ExportF>>, <<InterfaceType>>, <<ModuleNs>>,
                <<FuncAnonymous, AliasA>>}}

CallPackageNames == {"lib", "type"}

InitCalls ==
    /\ Init
    /\ input \in CallSources
    /\ packageName \in CallPackageNames

\* the next call: new arguments; the writer, the exports and the index of
\* the call before are still what that call left
CallAgain ==
    /\ pc \in {"returned", "raised"}
    /\ Len(calls) < MaxCalls
    /\ input' \in CallSources
    /\ packageName' \in CallPackageNames
    /\ pc' = "called"
    /\ UNCHANGED <<idx, writer, topLevelExports, result, calls>>
    /\ UNCHANGED <<tvars, dvars, uvars, hvars>>

NextCalls == Convert \/ ProcessTopLevelStatement \/ FinishFile \/ CallAgain

SpecCalls == InitCalls /\ [][NextCalls]_vars

-----------------------------------------------------------------------------
(* Properties of convertTsToScala.                                          *)

Returned == pc = "returned"

\* the file scope collected a type alias, a function, a variable or an
\* export assignment
FileScopeCollected ==
    Len(topLevelExports.types) + Len(topLevelExports.functions)
    + Len(topLevelExports.variables) + Len(topLevelExports.exportAssignments) > 0

IsFileScopeAnnotation(line) == TextOf(line.toks) = "@JSGlobalScope"

\* the line is written after the annotation of the file-scope container
InFileScopeContainer(lines, toks) ==
    \E i, j \in 1..Len(lines) :
        /\ i < j
        /\ IsFileScopeAnnotation(lines[i])
        /\ TextOf(lines[j].toks) = TextOf(toks)

\* C1: whenever the file scope has collected a type alias, a function, a
\* non-structural variable or an export assignment, the returned text holds
\* exactly one file-scope container, with a callable binding for every
\* collected function; a file whose only declaration is a function gets it.
C1_FileScopeContainerEmitted ==
    (Returned /\ FileScopeCollected) =>
        /\ Len(SelectSeq(result, IsFileScopeAnnotation)) = 1
        /\ \A i \in 1..Len(topLevelExports.functions) :
              InFileScopeContainer(result, GlobalFunctionLine(topLevelExports.functions[i]))

\* C2: for the declaration tree of a text without a syntax error convert
\* completes: no emitter or aggregator step raises, also when a collected
\* function has no name and the container of its scope is generated.
C2_ConvertNeverRaises ==
    ~input.diagnostics => pc # "raised"

\* C3: when the text cannot be parsed, convert ends by reporting an error
\* and returns no text at all, neither the header nor a partial facade.
C3_UnparsableTextIsAnError ==
    (input.diagnostics /\ pc \in {"returned", "raised"}) =>
        (pc = "raised" /\ result = <<>>)

\* the kinds of name the quoting rule covers
QuotedRoles == {"package", "namespace", "class", "interface", "method", "param"}

\* C10: every package, namespace, class, interface, method and parameter
\* name of the returned text that equals a Scala reserved word is written in
\* backquotes, at every place it is emitted.
C10_ReservedWordsQuoted ==
    Returned =>
        \A i \in 1..Len(result) :
            \A j \in 1..Len(result[i].toks) :
                result[i].toks[j].role \in QuotedRoles
                    => result[i].toks[j].text \notin SCALA_RESERVED_WORDS

-----------------------------------------------------------------------------
(* Claims on classes, namespaces and containers.                            *)

IsVisibleMember(member) == ~IsPrivateOrProtected(member)

\* the statement without the class members marked private or protected, in
\* the statement itself and in the namespaces it holds
RECURSIVE WithoutHiddenMembers(_)
WithoutHiddenMembers(node) ==
    IF node.kind = "ClassDeclaration"
      THEN [node EXCEPT !.members = SelectSeq(node.members, IsVisibleMember)]
    ELSE IF node.kind = "ModuleDeclaration"
      THEN [node EXCEPT !.members =
                [i \in 1..Len(node.members) |-> WithoutHiddenMembers(node.members[i])]]
    ELSE node

\* C11: no class member marked private or protected contributes any text:
\* a statement writes what the same statement without its private and
\* protected members (properties, methods, statics, constructors) writes.
C11_HiddenMembersContributeNothing ==
    [][ProcessTopLevelStatement =>
        writer' = processStatement(WithoutHiddenMembers(input.statements[idx]),
                                   writer, <<>>)]_vars

\* a line written by write(header).block: it ends with the opening brace
IsBlockOpen(line) == Len(line.toks) > 0 /\ line.toks[Len(line.toks)] = T("{")
\* the line written at the end of block
IsBlockClose(line) == line.toks = <<T("}")>>

\* the block opens and the block closes among the first n lines
Opens(lines, n) == Cardinality({i \in 1..n : IsBlockOpen(lines[i])})
Closes(lines, n) == Cardinality({i \in 1..n : IsBlockClose(lines[i])})

\* C12: in the returned text the block opens equal the block closes, and
\* at every prefix the closes never exceed the opens, so that a block
\* opened by a nested emitter is closed before the block around it.
C12_BalancedBlocks ==
    Returned =>
        /\ Opens(result, Len(result)) = Closes(result, Len(result))
        /\ \A n \in 0..Len(result) : Closes(result, n) <= Opens(result, n)

\* a returned text with a block nested four deep: package, companion
\* object, nested object, nested trait
C12_Witness ==
    /\ Returned
    /\ \E n \in 1..Len(result) : Opens(result, n) >= Closes(result, n) + 4

\* the names of the properties declared with a type literal, at every depth
\* of a list of interface members
RECURSIVE InlineTypeLiteralNames(_)
InlineTypeLiteralNames(members) ==
    UNION {IF IsInlineTypeLiteralProperty(members[i])
             THEN {members[i].name} \cup InlineTypeLiteralNames(members[i].type.members)
             ELSE {} : i \in 1..Len(members)}

\* the line binds the property to js.Any
RendersAsAny(line, propName) ==
    \E j, k \in 1..Len(line.toks) :
        /\ j < k
        /\ line.toks[j] = N("property", propName)
        /\ line.toks[k] = Ty("js.Any")

\* C13: a property of an interface that is declared with an anonymous
\* structural type is, at every nesting depth, never rendered with js.Any in
\* the returned text.
C13_InlineTypeLiteralNeverAny ==
    Returned =>
        \A s \in 1..Len(input.statements) :
            input.statements[s].kind = "InterfaceDeclaration" =>
                \A propName \in InlineTypeLiteralNames(input.statements[s].members) :
                    \A i \in 1..Len(result) : ~RendersAsAny(result[i], propName)

\* the header line of a class: [abstract ]class Name...
IsClassHeader(line) == \E t \in 1..Len(line.toks) : line.toks[t] = T("class ")
ClassHeaderName(line) ==
    line.toks[(CHOOSE t \in 1..Len(line.toks) : line.toks[t] = T("class ")) + 1].text
\* the header line of the companion object of a class
IsCompanionHeader(line) ==
    Len(line.toks) >= 2 /\ line.toks[1] = T("object ") /\ line.toks[2].role = "class"

\* lines[j] is the header of the class whose companion object opens at lines[k]
IsClassOfCompanion(lines, j, k) ==
    /\ j < k
    /\ IsClassHeader(lines[j])
    /\ IsCompanionHeader(lines[k])
    /\ ClassHeaderName(lines[j]) = lines[k].toks[2].text
    /\ \A m \in (j + 1)..(k - 1) : ~IsClassHeader(lines[m])

\* C14: the companion object of a class with static members carries the
\* annotation of the class itself: the line above the companion header is the
\* line above the class header (@JSGlobal("<full path>.<Class>") in
\* namespaces of any depth, @JSGlobal at top level).
C14_CompanionSharesGlobalPath ==
    Returned =>
        \A j, k \in 2..Len(result) :
            IsClassOfCompanion(result, j, k)
                => TextOf(result[k - 1].toks) = TextOf(result[j - 1].toks)

\* the header line of the object synthesized at the close of a scope
IsContainerHeader(line) ==
    Len(line.toks) >= 2 /\ line.toks[1] = T("object ") /\ line.toks[2].role = "object"
    /\ line.toks[3] = T(" extends js.Object ")

\* the dotted paths of the namespaces of a statement list that collect a
\* type alias, a function or a variable, the enclosing path included
RECURSIVE ContainerPaths(_, _)
ContainerPaths(statements, namespace) ==
    UNION {LET node == statements[i]
               newNamespace == Append(namespace, node.name)
           IN  IF node.kind = "ModuleDeclaration" /\ node.sub # "StringLiteral"
                  /\ node.body = "ModuleBlock"
                 THEN (IF \E m \in 1..Len(node.members) :
                              node.members[m].kind \in {"TypeAliasDeclaration",
                                                        "FunctionDeclaration",
                                                        "VariableStatement"}
                         THEN {NamespaceText(newNamespace)} ELSE {})
                      \cup ContainerPaths(node.members, newNamespace)
                 ELSE {} : i \in 1..Len(statements)}

\* C15: the object synthesized at the close of a namespace scope is bound
\* to the full dotted path of that namespace, outer segments included: the
\* @JSGlobal("...") line above the header of a container names the path of a
\* namespace of the input.
C15_ModuleObjectBoundToFullPath ==
    Returned =>
        \A k \in 2..Len(result) :
            (/\ IsContainerHeader(result[k])
             /\ Len(result[k - 1].toks) = 3
             /\ result[k - 1].toks[2].role = "jsglobal")
                => result[k - 1].toks[2].text \in ContainerPaths(input.statements, <<>>)

\* the statements of the body of a namespace: those of its block, or the
\* namespace declaration that is the body of a namespace with a dotted name
IsNamespace(node) == node.kind = "ModuleDeclaration" /\ node.sub # "StringLiteral"

\* the number of classes of a statement list declared at the dotted path
\* `path`, in namespaces not named by a string literal
RECURSIVE DeclaredClassCount(_, _, _)
DeclaredClassCount(statements, namespace, path) ==
    IF Len(statements) = 0 THEN 0
    ELSE LET node == Head(statements)
         IN  (IF node.kind = "ClassDeclaration" /\ Len(namespace) > 0
                  /\ NamespaceText(namespace) \o "." \o node.name = path
                THEN 1
              ELSE IF IsNamespace(node)
                THEN DeclaredClassCount(node.members, Append(namespace, node.name), path)
              ELSE 0)
             + DeclaredClassCount(Tail(statements), namespace, path)

\* the dotted paths of the classes declared in namespaces
RECURSIVE DeclaredClassPaths(_, _)
DeclaredClassPaths(statements, namespace) ==
    UNION {LET node == statements[i]
           IN  IF node.kind = "ClassDeclaration" /\ Len(namespace) > 0
                 THEN {NamespaceText(namespace) \o "." \o node.name}
               ELSE IF IsNamespace(node)
                 THEN DeclaredClassPaths(node.members, Append(namespace, node.name))
               ELSE {} : i \in 1..Len(statements)}

\* the number of class headers of the text annotated with the path
EmittedClassCount(lines, path) ==
    Cardinality({k \in 2..Len(lines) :
                    /\ IsClassHeader(lines[k])
                    /\ lines[k - 1].toks = JSGlobalLine(path)})

\* C16: each declaration in the body of a namespace not named by a string
\* literal is visited exactly once with the enclosing path extended by the
\* segment of the namespace, a namespace with a dotted name included: every
\* class declared at a path is emitted as many times as it is declared,
\* annotated with that path.
C16_NamespaceBodyVisitedOnce ==
    Returned =>
        \A path \in DeclaredClassPaths(input.statements, <<>>) :
            EmittedClassCount(result, path)
                = DeclaredClassCount(input.statements, <<>>, path)

\* the number of variables declared directly in the file scope and in the
\* namespace scopes of a statement list
RECURSIVE DeclaredVariableCount(_)
DeclaredVariableCount(statements) ==
    IF Len(statements) = 0 THEN 0
    ELSE LET node == Head(statements)
         IN  (IF node.kind = "VariableStatement" THEN Len(node.members)
              ELSE IF IsNamespace(node) THEN DeclaredVariableCount(node.members)
              ELSE 0)
             + DeclaredVariableCount(Tail(statements))

\* the output units of variables: the bindings `val|def name: T = js.native`
\* and the headers `object name extends js.Object {`
EmittedVariableCount(lines) ==
    Cardinality({k \in 1..Len(lines) :
                    \E t \in 1..Len(lines[k].toks) : lines[k].toks[t].role = "variable"})

\* C17: every variable declared directly in the file scope or in a
\* namespace scope produces exactly one output unit, its own object or one
\* binding in the container of its scope, variables without a type
\* annotation included.
C17_EveryVariableEmittedOnce ==
    Returned => EmittedVariableCount(result) = DeclaredVariableCount(input.statements)

\* a callable binding of a container: def name(params): T = js.native
IsCallableBinding(line) ==
    \E t \in 1..Len(line.toks) : line.toks[t].role = "function"

\* C18: in the file-scope container and in each namespace-scope container
\* no two callable bindings have the same rendered text: two equal callable
\* lines of the returned text are separated by the end of a block.
C18_NoDuplicateCallables ==
    Returned =>
        \A i, j \in 1..Len(result) :
            (/\ i < j
             /\ IsCallableBinding(result[i])
             /\ IsCallableBinding(result[j])
             /\ TextOf(result[i].toks) = TextOf(result[j].toks))
                => \E m \in (i + 1)..(j - 1) : IsBlockClose(result[m])

\* the classes the walk of the statements reaches, in the order it reaches
\* them: those of the file scope and of the blocks of the namespaces
RECURSIVE VisitedClasses(_)
VisitedClasses(statements) ==
    IF Len(statements) = 0 THEN <<>>
    ELSE LET node == Head(statements)
         IN  (IF node.kind = "ClassDeclaration" THEN <<node>>
              ELSE IF IsNamespace(node) /\ node.body = "ModuleBlock"
                THEN VisitedClasses(node.members)
              ELSE <<>>)
             \o VisitedClasses(Tail(statements))

\* the index of the k-th class header of the text
ClassHeaderIndex(lines, k) ==
    CHOOSE i \in 1..Len(lines) :
        /\ IsClassHeader(lines[i])
        /\ Cardinality({m \in 1..i : IsClassHeader(lines[m])}) = k

ClassHeaderCount(lines) == Cardinality({i \in 1..Len(lines) : IsClassHeader(lines[i])})

IsSecondaryConstructor(line) == Len(line.toks) > 0 /\ line.toks[1] = T("def this(")
DelegatesToPrimary(line) == line.toks[Len(line.toks)] = T(") = this()")
HasRestrictedPrimary(line) ==
    \E t \in 1..Len(line.toks) : line.toks[t] = T(" protected ()")

\* the secondary constructors of the class whose header is lines[i]
SecondaryConstructors(lines, i) ==
    {m \in (i + 1)..Len(lines) :
        /\ IsSecondaryConstructor(lines[m])
        /\ \A n \in (i + 1)..m : ~IsClassHeader(lines[n])}

\* C19: a class has the restricted parameterless primary constructor if and
\* only if one of its declared constructors takes a parameter; it has as many
\* secondary constructors as declared constructors with a parameter, each
\* delegating to the primary, and none for a parameterless constructor.
C19_ConstructorsRendered ==
    Returned =>
        /\ ClassHeaderCount(result) = Len(VisitedClasses(input.statements))
        /\ \A k \in 1..Len(VisitedClasses(input.statements)) :
              LET i == ClassHeaderIndex(result, k)
                  declared == Len(SelectSeq(VisitedClasses(input.statements)[k].members,
                                            IsParamCtor))
              IN  /\ HasRestrictedPrimary(result[i]) <=> declared > 0
                  /\ Cardinality(SecondaryConstructors(result, i)) = declared
                  /\ \A m \in SecondaryConstructors(result, i) :
                        DelegatesToPrimary(result[m])

\* a returned text of a class that declares a parameterless constructor and
\* a constructor with a parameter, with its secondary constructor
C19_Witness ==
    /\ Returned
    /\ \E k \in 1..Len(VisitedClasses(input.statements)) :
          LET members == VisitedClasses(input.statements)[k].members
          IN  /\ Len(SelectSeq(members, IsConstructor)) > Len(SelectSeq(members, IsParamCtor))
              /\ Len(SelectSeq(members, IsParamCtor)) > 0
              /\ HasRestrictedPrimary(result[ClassHeaderIndex(result, k)])
              /\ SecondaryConstructors(result, ClassHeaderIndex(result, k)) # {}

\* the heritage types of a class as the claim lists them: the first type of
\* the extends clause if there is one, otherwise the first implements type,
\* otherwise js.Object; then every other heritage type, in declaration order
ExpectedHeritageList(node) ==
    LET extendsTypes == HeritageTypes(SelectSeq(node.heritage, IsExtendsClause))
        implementsTypes ==
            HeritageTypes(SelectSeq(node.heritage, LAMBDA h : ~IsExtendsClause(h)))
    IN  IF Len(extendsTypes) > 0
          THEN <<Head(extendsTypes)>>
               \o SelectSeq(HeritageTypes(node.heritage),
                            LAMBDA t : t # Head(extendsTypes))
        ELSE IF Len(implementsTypes) > 0 THEN implementsTypes
        ELSE <<"js.Object">>

\* the names of the extends/with list of a class header
EmittedHeritageList(line) ==
    LET heritage == SelectSeq(line.toks, LAMBDA tok : tok.role = "heritage")
    IN  [t \in 1..Len(heritage) |-> heritage[t].text]

\* C20: every type named in the heritage clauses of a class appears exactly
\* once in the extends/with list of its header: first the base (the first
\* extends type, else the first implements type, else js.Object), then the
\* remaining types in declaration order, whatever the order of the extends
\* and implements clauses.
C20_HeritageListComplete ==
    Returned =>
        /\ ClassHeaderCount(result) = Len(VisitedClasses(input.statements))
        /\ \A k \in 1..Len(VisitedClasses(input.statements)) :
              EmittedHeritageList(result[ClassHeaderIndex(result, k)])
                  = ExpectedHeritageList(VisitedClasses(input.statements)[k])

-----------------------------------------------------------------------------
(* Claims on enums, emission order, members and containers.                 *)

\* the enums the walk of the statements reaches, in the order it reaches them
RECURSIVE VisitedEnums(_)
VisitedEnums(statements) ==
    IF Len(statements) = 0 THEN <<>>
    ELSE LET node == Head(statements)
         IN  (IF node.kind = "EnumDeclaration" THEN <<node>>
              ELSE IF IsNamespace(node) /\ node.body = "ModuleBlock"
                THEN VisitedEnums(node.members)
              ELSE <<>>)
             \o VisitedEnums(Tail(statements))

IsSealedTrait(line) == Len(line.toks) > 0 /\ line.toks[1] = T("sealed trait ")

\* the index of the k-th sealed trait of the text
SealedTraitIndex(lines, k) ==
    CHOOSE i \in 1..Len(lines) :
        /\ IsSealedTrait(lines[i])
        /\ Cardinality({m \in 1..i : IsSealedTrait(lines[m])}) = k

\* the unit of the enum starts at lines[i]: the sealed trait, the companion
\* object with one binding per member, in order, typed as the enum, then the
\* lookup method and the end of the object
IsEnumUnit(lines, i, node) ==
    LET n == Len(node.members)
    IN  /\ i + 7 + n <= Len(lines)
        /\ lines[i].toks[2] = N("enum", node.name)
        /\ IsBlockClose(lines[i + 1])
        /\ lines[i + 4].toks[1] = T("object ")
        /\ lines[i + 4].toks[2] = N("enum", node.name)
        /\ IsBlockOpen(lines[i + 4])
        /\ \A j \in 1..n :
              lines[i + 4 + j].toks = <<T("var "), N("member", node.members[j].name),
                                        T(": "), N("enum", node.name), T(" = js.native")>>
        /\ TextOf(lines[i + 5 + n].toks) = "@JSBracketAccess"
        /\ TextOf(lines[i + 6 + n].toks)
              = "def apply(value: " \o node.name \o "): String = js.native"
        /\ IsBlockClose(lines[i + 7 + n])

\* C21: an enum with n members yields one sealed marker trait and one
\* companion object with exactly n bindings, one per member in declaration
\* order and typed as the enum, followed by exactly one lookup method from
\* the enum type to String.
C21_EnumUnit ==
    Returned =>
        /\ Cardinality({i \in 1..Len(result) : IsSealedTrait(result[i])})
              = Len(VisitedEnums(input.statements))
        /\ \A k \in 1..Len(VisitedEnums(input.statements)) :
              IsEnumUnit(result, SealedTraitIndex(result, k),
                         VisitedEnums(input.statements)[k])

\* a returned text with the units of an enum of two members and of an enum
\* of three members
C21_Witness ==
    /\ Returned
    /\ \E k, l \in 1..Len(VisitedEnums(input.statements)) :
          /\ Len(VisitedEnums(input.statements)[k].members) = 2
          /\ Len(VisitedEnums(input.statements)[l].members) = 3
          /\ IsEnumUnit(result, SealedTraitIndex(result, l),
                        VisitedEnums(input.statements)[l])

Last(s) == s[Len(s)]

\* the lines of s are the first lines of t
IsPrefix(s, t) == Len(s) <= Len(t) /\ SubSeq(t, 1, Len(s)) = s

\* the header at lines[k] is that of the container of a namespace
IsNamespaceContainerHeader(lines, k) ==
    /\ k >= 2
    /\ IsContainerHeader(lines[k])
    /\ Len(lines[k - 1].toks) = 3
    /\ lines[k - 1].toks[2].role = "jsglobal"

\* the indexes of the headers of the blocks that are open after the first n
\* lines, the innermost last
\* as many blocks open as close on the lines after lines[p] and before lines[k]
IsBalancedBetween(lines, p, k) ==
    Cardinality({m \in (p + 1)..(k - 1) : IsBlockOpen(lines[m])})
        = Cardinality({m \in (p + 1)..(k - 1) : IsBlockClose(lines[m])})

\* the index of the header of the innermost block that is open at lines[k]:
\* the last header before lines[k] that is followed by balanced lines
EnclosingBlock(lines, k) ==
    CHOOSE p \in 1..(k - 1) :
        /\ IsBlockOpen(lines[p])
        /\ IsBalancedBetween(lines, p, k)
        /\ \A q \in (p + 1)..(k - 1) :
              IsBlockOpen(lines[q]) => ~IsBalancedBetween(lines, q, k)

\* the container that opens at lines[k] is written in the block of its
\* namespace, and the block of the namespace closes right after it
IsLastOfItsNamespace(lines, k) ==
    LET e == CHOOSE m \in (k + 1)..Len(lines) :
                /\ IsBlockClose(lines[m])
                /\ \A n \in (k + 1)..(m - 1) : ~IsBlockClose(lines[n])
        p == EnclosingBlock(lines, k)
    IN  /\ e < Len(lines)
        /\ IsBlockClose(lines[e + 1])
        /\ lines[p].toks[2] = N("namespace", SafeName(lines[k - 1].toks[2].text))

\* C22: the text is written in a fixed order: each top-level statement
\* appends its unit to what the statements before it wrote, the file-scope
\* container is written after the unit of the last statement, and the
\* container of a namespace is written after the units of the declarations
\* of the namespace, just before the block of the namespace closes.
C22_EmissionOrder ==
    [][/\ ProcessTopLevelStatement => IsPrefix(writer.lines, writer'.lines)
       /\ (FinishFile /\ ~writer'.raised) =>
             /\ IsPrefix(writer.lines, writer'.lines)
             /\ \A k \in 1..Len(writer'.lines) :
                   IsFileScopeAnnotation(writer'.lines[k]) => k > Len(writer.lines)
             /\ IsBlockClose(writer'.lines[Len(writer'.lines)])
             /\ \A k \in 1..Len(writer'.lines) :
                   IsNamespaceContainerHeader(writer'.lines, k)
                       => IsLastOfItsNamespace(writer'.lines, k)]_vars

\* a returned text of two statements that holds the container of a
\* namespace, written after a unit of the namespace, and the file-scope
\* container
C22_Witness ==
    /\ Returned
    /\ Len(input.statements) = 2
    /\ \E k \in 1..Len(result) :
          /\ IsNamespaceContainerHeader(result, k)
          /\ EnclosingBlock(result, k) < k - 2
    /\ \E k \in 1..Len(result) : IsFileScopeAnnotation(result[k])

\* C23: convert is deterministic and history-independent: two calls with
\* the same source and package name end the same way, with the same text,
\* whatever calls were made before or between them.
C23_CallsIndependent ==
    \A i, j \in 1..Len(calls) :
        (calls[i].input = calls[j].input /\ calls[i].packageName = calls[j].packageName)
            => (calls[i].raised = calls[j].raised /\ calls[i].result = calls[j].result)

\* three calls ended: the first and the third with the same arguments and a
\* text with a file-scope container, the second with another source and a
\* text with the container of a namespace
C23_Witness ==
    /\ Len(calls) = 3
    /\ calls[1].input = calls[3].input
    /\ calls[1].packageName = calls[3].packageName
    /\ calls[2].input # calls[1].input
    /\ \E k \in 1..Len(calls[3].result) : IsFileScopeAnnotation(calls[3].result[k])
    /\ ~calls[2].raised
    /\ \E k \in 1..Len(calls[2].result) : IsContainerHeader(calls[2].result[k])

-----------------------------------------------------------------------------
(* run.ts: the batch driver.  A file is modelled by the step of convertFile *)
(* that fails for it: none, the read, the conversion or the write.          *)

MaxFiles == 3       \* files found by findTsFiles

FileFaults == {"none", "read", "convert", "write"}

IdleTypeMapper ==
    /\ tnode = NoType
    /\ tres = ""
    /\ tentries = <<>>
    /\ tprev = ""
    /\ twraps = 0
    /\ tpc = "idle"

IdleConverter ==
    /\ input = [diagnostics |-> FALSE, statements |-> <<>>]
    /\ packageName = ""
    /\ pc = "idle"
    /\ idx = 0
    /\ writer = NewWriter
    /\ topLevelExports = NoExports
    /\ result = <<>>
    /\ calls = <<>>

\* convertFile: read, convert, mkdir and write inside one try; the catch
\* logs the error and the function returns normally
convertFile(file) ==
    [threw |-> FALSE, written |-> file = "none"]

InitDriver ==
    /\ tsFiles \in UNION {[1..n -> FileFaults] : n \in 0..MaxFiles}
    /\ dpc = "main"
    /\ di = 0
    /\ successCount = 0
    /\ completed = 0
    /\ exitStatus = 0
    /\ IdleTypeMapper /\ IdleConverter /\ IdleApp /\ IdleHighlighter

\* main up to the loop: without files it returns, and the process ends
\* with status 0
Main ==
    /\ dpc = "main"
    /\ IF Len(tsFiles) = 0
         THEN dpc' = "exited" /\ di' = di
         ELSE dpc' = "loop" /\ di' = 1
    /\ successCount' = 0
    /\ UNCHANGED <<tsFiles, completed, exitStatus>>
    /\ UNCHANGED <<tvars, cvars, uvars, hvars>>

\* one round of the loop of main: try { convertFile(...); successCount++ }
ConvertFileStep ==
    /\ dpc = "loop"
    /\ di <= Len(tsFiles)
    /\ successCount' = IF convertFile(tsFiles[di]).threw THEN successCount
                       ELSE successCount + 1
    /\ completed' = IF convertFile(tsFiles[di]).written THEN completed + 1 ELSE completed
    /\ di' = di + 1
    /\ UNCHANGED <<tsFiles, dpc, exitStatus>>
    /\ UNCHANGED <<tvars, cvars, uvars, hvars>>

\* the end of main: process.exit(1) if successCount < tsFiles.length
ExitMain ==
    /\ dpc = "loop"
    /\ di > Len(tsFiles)
    /\ exitStatus' = IF successCount < Len(tsFiles) THEN 1 ELSE 0
    /\ dpc' = "exited"
    /\ UNCHANGED <<tsFiles, di, successCount, completed>>
    /\ UNCHANGED <<tvars, cvars, uvars, hvars>>

NextDriver == Main \/ ConvertFileStep \/ ExitMain

SpecDriver == InitDriver /\ [][NextDriver]_vars

\* C24: the success count the driver reports is the number of files whose
\* read, conversion and write all completed, and the exit status is
\* non-zero if and only if at least one file failed.
C24_SuccessCountIsCompleted ==
    dpc = "exited" =>
        /\ successCount = completed
        /\ (exitStatus # 0 <=> completed < Len(tsFiles))

-----------------------------------------------------------------------------
(* App: the custom mode of the interactive surface.  handleCustomConvert    *)
(* has no await: it runs from its first line to its finally block before    *)
(* any other event is handled.  The text the core returns for a source is   *)
(* identified by that source.                                               *)

MaxInvocations == 3     \* invocations of handleCustomConvert

\* the texts typed into the custom input; the last one makes the core throw
ThrowingText == "declare namespace ns { export default function (x: number): void; }"
CustomTexts ==
    {"", "  ", "type A = string;", "declare const x: number;", ThrowingText}

\* customTsContent.trim()
Trimmed(text) == IF text \in {"", "  "} THEN "" ELSE text

\* convertTsToScala(customTsContent, "custom"): the text, or the TypeError
CustomConversion(text) ==
    IF text = ThrowingText
      THEN [threw |-> TRUE,
            text |-> "Cannot read properties of undefined (reading 'getText')"]
      ELSE [threw |-> FALSE, text |-> "scala of: " \o text]

\* `// Error generating Scala code:\n// ${error.message}`
ErrorMessage(message) == "// Error generating Scala code: // " \o message

InitApp ==
    /\ customTsContent = ""
    /\ customScalaContent = ""
    /\ isConverting = FALSE
    /\ upc = "idle"
    /\ invocations = <<>>
    /\ IdleTypeMapper /\ IdleConverter /\ IdleDriver /\ IdleHighlighter

\* onChange of the text area
EditContent ==
    /\ upc = "idle"
    /\ customTsContent' \in CustomTexts \ {customTsContent}
    /\ UNCHANGED <<customScalaContent, isConverting, upc, invocations>>
    /\ UNCHANGED <<tvars, cvars, dvars, hvars>>

\* handleCustomConvert up to the try: the button is enabled only for a
\* non-blank text while no conversion runs
BeginCustomConvert ==
    /\ upc = "idle"
    /\ Trimmed(customTsContent) # ""
    /\ ~isConverting
    /\ Len(invocations) < MaxInvocations
    /\ isConverting' = TRUE
    /\ upc' = "try"
    /\ UNCHANGED <<customTsContent, customScalaContent, invocations>>
    /\ UNCHANGED <<tvars, cvars, dvars, hvars>>

\* the try and the catch: the text of the core, or the error message
TryCustomConvert ==
    /\ upc = "try"
    /\ customScalaContent' =
          IF CustomConversion(customTsContent).threw
            THEN ErrorMessage(CustomConversion(customTsContent).text)
            ELSE CustomConversion(customTsContent).text
    /\ invocations' = Append(invocations,
                             IF CustomConversion(customTsContent).threw
                               THEN "threw" ELSE "returned")
    /\ upc' = "finally"
    /\ UNCHANGED <<customTsContent, isConverting>>
    /\ UNCHANGED <<tvars, cvars, dvars, hvars>>

\* a finally block that leaves the flag as it is
EndCustomConvertKeepingFlag ==
    /\ upc = "finally"
    /\ upc' = "idle"
    /\ UNCHANGED <<customTsContent, customScalaContent, isConverting, invocations>>
    /\ UNCHANGED <<tvars, cvars, dvars, hvars>>

\* finally { setIsConverting(false) }, and the handler returns
EndCustomConvert ==
    /\ upc = "finally"
    /\ isConverting' = FALSE
    /\ upc' = "idle"
    /\ UNCHANGED <<customTsContent, customScalaContent, invocations>>
    /\ UNCHANGED <<tvars, cvars, dvars, hvars>>

NextApp == EditContent \/ BeginCustomConvert \/ TryCustomConvert \/ EndCustomConvert

SpecApp == InitApp /\ [][NextApp]_vars

\* C25: a failure of the core is recoverable per invocation: whenever an
\* invocation of handleCustomConvert has ended the converting flag is false,
\* a failed invocation ends normally with the error message as the shown
\* output, and a successful one ends with its own output shown.
C25_FailureIsRecoverable ==
    [][/\ upc' = "idle" => ~isConverting'
       /\ upc = "try" => upc' = "finally"
       /\ upc = "finally" =>
             /\ upc' = "idle"
             /\ customScalaContent' =
                   IF Last(invocations) = "threw"
                     THEN ErrorMessage(CustomConversion(customTsContent).text)
                     ELSE "scala of: " \o customTsContent]_vars

\* an invocation that failed, followed by one that succeeded and has ended
\* with its own output shown
C25_Witness ==
    /\ upc = "idle"
    /\ Len(invocations) >= 2
    /\ invocations[1] = "threw"
    /\ invocations[2] = "returned"
    /\ customScalaContent = "scala of: " \o customTsContent

-----------------------------------------------------------------------------
(* Claims on the frame of a statement, the partition of class members, the  *)
(* callable bindings of the containers and the highlighting view            *)

MaxEntryLevel == 1      \* the deepest indentation level a statement is entered at

\* the statement and the statements of its namespace blocks, at any depth
RECURSIVE StatementsWithin(_)
StatementsWithin(statement) ==
    {statement} \cup
    IF statement.kind = "ModuleDeclaration"
      THEN UNION {StatementsWithin(statement.members[i]) :
                    i \in 1..Len(statement.members)}
      ELSE {}

\* the statements processStatement skips: a namespace named by a quoted
\* module specifier, and the kinds without an emitter
IsSkippedStatement(statement) ==
    \/ statement.kind = "ModuleDeclaration" /\ statement.sub = "StringLiteral"
    \/ statement.kind \notin
          {"ModuleDeclaration", "ClassDeclaration", "InterfaceDeclaration",
           "EnumDeclaration", "TypeAliasDeclaration", "VariableStatement",
           "FunctionDeclaration", "ExportAssignment"}

\* processStatement returns from `statement`, entered at `level`, at `level`,
\* and a skipped statement has appended nothing
RestoresFrame(statement, level, namespace) ==
    LET w == SetIndent(writer, level)
        r == processStatement(statement, w, namespace)
    IN  ~r.raised =>
          /\ r.indent = level
          /\ IsSkippedStatement(statement) => r.lines = w.lines

\* C26: for every statement kind the indentation level at the return of
\* processStatement equals the level at its entry, also at the early return
\* for a namespace named by a quoted module specifier and for the ignored
\* kinds, and those skipped statements append nothing to the buffer.  Stated
\* for the top-level round of the statement and, for the statement and every
\* statement nested in it, inside a namespace and for every entry level up
\* to MaxEntryLevel (the body of a package block is entered at level 1).
C26_StatementRestoresIndentation ==
    [][ProcessTopLevelStatement =>
         /\ ~writer'.raised =>
               /\ writer'.indent = writer.indent
               /\ IsSkippedStatement(input.statements[idx])
                     => writer'.lines = writer.lines
         /\ \A statement \in StatementsWithin(input.statements[idx]) :
              \A level \in 0..MaxEntryLevel :
                 RestoresFrame(statement, level, <<"ns">>)]_vars

\* a quoted-specifier module, then a namespace holding the ignored kinds,
\* have been processed
C26_Witness ==
    /\ pc = "statements"
    /\ idx = 3
    /\ input.statements[1] = ModuleString
    /\ input.statements[2] = ModuleNested
    /\ writer.indent = 1
    /\ Len(writer.lines) > 1


\* the index of the line that closes the block opened at lines[i], for a
\* block without inner blocks: the first closing line after i
BlockEnd(lines, i) ==
    CHOOSE e \in (i + 1)..Len(lines) :
        IsBlockClose(lines[e]) /\ \A n \in (i + 1)..(e - 1) : ~IsBlockClose(lines[n])

\* the lines of the body of the class whose header is lines[i]
ClassBodyLines(lines, i) == (i + 1)..(BlockEnd(lines, i) - 1)

\* the companion object directly follows the class: its two annotation
\* lines, then its header
HasCompanion(lines, i) ==
    LET c == BlockEnd(lines, i) + 3
    IN  c <= Len(lines) /\ IsCompanionHeader(lines[c])

\* the lines of the body of the companion object of that class, if it has one
CompanionLines(lines, i) ==
    IF HasCompanion(lines, i)
      THEN LET c == BlockEnd(lines, i) + 3
           IN  (c + 1)..(BlockEnd(lines, c) - 1)
      ELSE {}

\* the line is the binding of a property or method of that name
BindsMember(line, member) ==
    \E t \in 1..Len(line.toks) :
        /\ line.toks[t].role \in {"property", "method"}
        /\ line.toks[t].text \in {member.name, SafeName(member.name)}

IsNamedMember(member) ==
    member.kind \in {"PropertyDeclaration", "MethodDeclaration"}

\* C27: static and instance members of a class are partitioned: every static
\* property or method not marked private/protected is bound exactly once in
\* the companion object and never in the class body, and no instance member
\* is bound in the companion object.
C27_StaticInstancePartition ==
    Returned =>
        \A k \in 1..Len(VisitedClasses(input.statements)) :
            LET i == ClassHeaderIndex(result, k)
                members == VisitedClasses(input.statements)[k].members
            IN  \A j \in 1..Len(members) :
                  /\ (IsStaticProperty(members[j]) \/ IsStaticMethod(members[j]))
                        /\ ~IsPrivateOrProtected(members[j])
                     => /\ Cardinality({m \in CompanionLines(result, i) :
                                          BindsMember(result[m], members[j])}) = 1
                        /\ \A m \in ClassBodyLines(result, i) :
                              ~BindsMember(result[m], members[j])
                  /\ IsNamedMember(members[j]) /\ ~IsStatic(members[j])
                     => \A m \in CompanionLines(result, i) :
                           ~BindsMember(result[m], members[j])

\* a returned text of a class with visible static and instance members: the
\* companion object binds the static property and the static method
C27_Witness ==
    /\ Returned
    /\ \E k \in 1..Len(VisitedClasses(input.statements)) :
          LET i == ClassHeaderIndex(result, k)
              members == VisitedClasses(input.statements)[k].members
          IN  /\ \E j \in 1..Len(members) :
                    IsStaticProperty(members[j]) /\ ~IsPrivateOrProtected(members[j])
              /\ \E j \in 1..Len(members) :
                    IsStaticMethod(members[j]) /\ ~IsPrivateOrProtected(members[j])
              /\ \E j \in 1..Len(members) :
                    /\ IsNamedMember(members[j]) /\ ~IsStatic(members[j])
                    /\ \E m \in ClassBodyLines(result, i) :
                          BindsMember(result[m], members[j])
              /\ Cardinality(CompanionLines(result, i)) = 2


\* C28: every companion object emitted for the static members of a class
\* holds at least one binding: a class whose static members are all private
\* or protected gets no companion object.
C28_CompanionNeverEmpty ==
    Returned =>
        \A k \in 1..Len(VisitedClasses(input.statements)) :
            HasCompanion(result, ClassHeaderIndex(result, k))
                => CompanionLines(result, ClassHeaderIndex(result, k)) # {}


\* the lines of the body of the file-scope container of the text
FileScopeContainerLines(lines) ==
    UNION {(h + 1)..(BlockEnd(lines, h) - 1) :
             h \in {i \in 2..Len(lines) :
                      /\ IsContainerHeader(lines[i])
                      /\ lines[i - 1].toks = <<T("@JSGlobalScope")>>}}

\* the line is the callable binding of a function of that name
BindsFunction(line, name) ==
    Len(line.toks) >= 2 /\ line.toks[1] = T("def ") /\ line.toks[2] = N("function", name)

\* the binding a namespace-scope container writes for the function
NamespaceBinding(func) == WriteModuleFunctions(<<func>>, NewWriter).lines[1].toks

\* C29: a free function declaration is rendered to the same callable binding
\* whether it is aggregated into a namespace-scope container or into the
\* file-scope container: the binding of a file-scope function in the
\* file-scope container is the binding a namespace-scope container writes
\* for the same declaration.
C29_SameBindingInBothContainers ==
    Returned =>
        \A j \in 1..Len(topLevelExports.functions) :
            LET func == topLevelExports.functions[j]
            IN  func.name # "" =>
                  \A m \in FileScopeContainerLines(result) :
                      BindsFunction(result[m], func.name)
                          => result[m].toks = NamespaceBinding(func)

-----------------------------------------------------------------------------
(* CodeHighlighter: one mounted view.  The effect of [code, language] calls *)
(* initializeHighlighter, which awaits createHighlighter while the          *)
(* module-level highlighterInstance is null.  The effect has no cleanup: a  *)
(* call that was started for earlier props resumes with the code and the    *)
(* language of its own closure.  The creations are independent promises and *)
(* settle in any order.                                                     *)

MaxRequests == 3        \* calls of initializeHighlighter

Codes == {"", "type A = string;", "type B = number;"}
Languages == {"typescript", "scala"}

\* highlighterInstance.codeToHtml(code, {lang: language, theme: 'github-light'})
codeToHtml(text, lang) ==
    "<pre class=\"shiki github-light\" lang=\"" \o lang \o "\">" \o text \o "</pre>"

\* `<pre><code>${escapeHtml(code)}</code></pre>`; the codes hold no character
\* that escapeHtml replaces
FallbackHtml(text) == "<pre><code>" \o text \o "</code></pre>"

InitHighlighter ==
    /\ highlighterInstance = "null"
    /\ code = ""
    /\ language = "typescript"
    /\ pending = {}
    /\ highlightedCode = ""
    /\ requests = <<>>
    /\ IdleTypeMapper /\ IdleConverter /\ IdleDriver /\ IdleApp

\* a render with new props, and the effect up to its first await
RunEffect ==
    \E text \in Codes, lang \in Languages :
        /\ <<text, lang>> # <<code, language>>
        /\ code' = text
        /\ language' = lang
        /\ IF Trimmed(text) = ""
             THEN /\ highlightedCode' = ""
                  /\ UNCHANGED <<pending, requests>>
             ELSE /\ Len(requests) < MaxRequests
                  /\ requests' = Append(requests,
                        [code |-> text, language |-> lang,
                         awaited |-> highlighterInstance = "null"])
                  /\ IF highlighterInstance = "null"
                       THEN /\ pending' = pending \cup {Len(requests) + 1}
                            /\ UNCHANGED highlightedCode
                       ELSE /\ highlightedCode' = codeToHtml(text, lang)
                            /\ UNCHANGED pending
        /\ UNCHANGED highlighterInstance
        /\ UNCHANGED <<tvars, cvars, dvars, uvars>>

\* createHighlighter resolves for one of the awaiting calls: the instance is
\* assigned and the call goes on with its own code and language
CreateResolves ==
    \E r \in pending :
        /\ highlighterInstance' = "highlighter"
        /\ highlightedCode' = codeToHtml(requests[r].code, requests[r].language)
        /\ pending' = pending \ {r}
        /\ UNCHANGED <<code, language, requests>>
        /\ UNCHANGED <<tvars, cvars, dvars, uvars>>

\* createHighlighter rejects for one of the awaiting calls: the catch block
\* shows the escaped code of the call
CreateRejects ==
    \E r \in pending :
        /\ highlightedCode' = FallbackHtml(requests[r].code)
        /\ pending' = pending \ {r}
        /\ UNCHANGED <<highlighterInstance, code, language, requests>>
        /\ UNCHANGED <<tvars, cvars, dvars, uvars>>

NextHighlighter == RunEffect \/ CreateResolves \/ CreateRejects

SpecHighlighter == InitHighlighter /\ [][NextHighlighter]_vars

\* the calls that were started before a creation had completed
AwaitedRequests == {r \in 1..Len(requests) : requests[r].awaited}

\* C30: when several highlight requests were started before the first
\* creation of the highlighter had completed, then once all of them have
\* completed the displayed markup is that of the most recently supplied code
\* and language (its highlighted markup, or its escaped text when its
\* creation failed; nothing for a blank code), never that of an earlier
\* request.
C30_LatestRequestDisplayed ==
    (Cardinality(AwaitedRequests) >= 2 /\ pending = {})
        => highlightedCode \in
              IF Trimmed(code) = "" THEN {""}
              ELSE {codeToHtml(code, language), FallbackHtml(code)}

=============================================================================
